---- MODULE Spec2Model ----
(***************************************************************************)
(* The Wormhole withdrawal verifier (crates/program-core) as a state       *)
(* machine: one behaviour is one call of execute_wormhole_program on one   *)
(* input, one action per check of the function body.  The input is one a   *)
(* host built for some chain state, such an input with one field replaced, *)
(* or an accepted input with one byte of a proof node or of the state root *)
(* changed (original is then the input before the change).                 *)
(*                                                                         *)
(* GuestSpec runs the zkVM guest programs (programs/sp1, programs/risc0,   *)
(* programs/pico) and the standalone guest (program/src/main.rs): program  *)
(* names the code that runs ("core" for a plain call of the function),     *)
(* journal holds the public values it committed.                           *)
(*                                                                         *)
(* The functions of WormholeSecret (crates/alloy-wormhole/src/secret.rs)   *)
(* have specifications of their own: PowSpec applies the proof-of-work     *)
(* test to hash values, MineSpec runs try_random, PreimageSpec derives the *)
(* strings that nullifier, burn_address and the proof-of-work hash feed to *)
(* SHA-256.  HostSpec is a run of the create-input command or a call of    *)
(* the executor.                                                           *)
(*                                                                         *)
(* Byte strings are sequences of integers.  The 256-bit integers of the    *)
(* program are scaled to the range 0..UMax and their 32-byte encodings to  *)
(* two bytes; digests are collision-free by construction (see Sha256,      *)
(* Keccak256).                                                             *)
(***************************************************************************)
EXTENDS Integers, Sequences, FiniteSets, TLC

VARIABLES input, original, pc, nullifier_account,
          cumulative_withdrawn_amount_hashed, result, program, journal,
          previous_withdrawal_index,
          pow_hash, pow_valid, secret_bytes, draws, mined, pair, preimages

\* The state of the functions of WormholeSecret.
secret_vars == <<pow_hash, pow_valid, secret_bytes, draws, mined, pair, preimages>>

\* The state of a run of the executor, of a guest or of create-input.
exec_vars ==
    <<input, original, pc, nullifier_account,
      cumulative_withdrawn_amount_hashed, result, program, journal,
      previous_withdrawal_index>>

vars == <<exec_vars, secret_vars>>

\* No function of WormholeSecret is being run.
SecretIdle ==
    /\ pow_hash = <<>>
    /\ pow_valid = <<>>
    /\ secret_bytes = <<>>
    /\ draws = 0
    /\ mined = "none"
    /\ pair = <<>>
    /\ preimages = <<>>

(***************************************************************************)
(* Bounds of the model.                                                    *)
(***************************************************************************)
\* U256::MAX, scaled: the largest value of a 256-bit field.
UMax == 3
\* The largest withdrawal_index an input carries.
MaxIndex == 2
\* The draws of try_random that are counted; later ones are not.
MaxDraws == 3
\* The longest secret whose preimages are compared.
MaxSecretLen == 2

(***************************************************************************)
(* Protocol constants (crates/alloy-wormhole/src/constants.rs).            *)
(***************************************************************************)
MAGIC_ADDRESS == 254
MAGIC_NULLIFIER == 1
MAGIC_POW == 2
POW_LOG_DIFFICULTY == 24
POW_DIFFICULTY_U256 == 16777216

(***************************************************************************)
(* 256-bit integers and their byte views.                                  *)
(***************************************************************************)
U256 == 0..UMax

\* U256::checked_add: <<>> is None, <<s>> is Some(s).
CheckedAdd(a, b) == IF a + b > UMax THEN <<>> ELSE <<a + b>>

\* U256::to_be_bytes (32 bytes, scaled to 2): most significant byte first.
ToBeBytes(n) == <<n \div 256, n % 256>>

\* U256::as_le_slice (32 bytes, scaled to 2): least significant byte first.
AsLeSlice(n) == <<n % 256, n \div 256>>

(***************************************************************************)
(* Hash primitives.  SHA-256 and Keccak-256 are modelled as collision-free *)
(* digests: the digest of a string carries the string, so that two digests *)
(* are equal exactly when their preimages are.  A SHA-256 digest ends in   *)
(* three bytes that depend on the preimage (the bytes the proof-of-work    *)
(* test reads), chosen so that TEST_SECRET passes the test and the empty   *)
(* secret and the secret 01 02 03 of tests::invalid_secret fail it.        *)
(***************************************************************************)
RECURSIVE SumBytes(_)
SumBytes(s) == IF s = <<>> THEN 0 ELSE Head(s) + SumBytes(Tail(s))

\* sha2::Sha256 (secret.rs sha256): tag byte, preimage, three trailing bytes.
Sha256(data) == <<32>> \o data \o <<0, 0, SumBytes(data) % 9>>

\* alloy_primitives::keccak256: tag byte, preimage.
Keccak256(data) == <<33>> \o data

\* U256::from_be_bytes(h).rem(m), evaluated most significant byte first.
\* (acc * 256) % m is computed on acc % (m \div 256), which is the same
\* residue because 256 divides m, to keep the products in range.
RECURSIVE BeRem(_, _, _)
BeRem(h, m, acc) ==
    IF h = <<>> THEN acc
    ELSE BeRem(Tail(h), m, ((acc % (m \div 256)) * 256 + Head(h)) % m)

(***************************************************************************)
(* WormholeSecret (crates/alloy-wormhole/src/secret.rs).                   *)
(***************************************************************************)
\* secret.rs 88: [&[MAGIC_POW], secret].concat()
ProofOfWorkPreimage(secret) == <<MAGIC_POW>> \o secret

proof_of_work_secret_hash(secret) == Sha256(ProofOfWorkPreimage(secret))

\* U256::from_le_bytes(h).rem(m): the hash read least significant byte
\* first.
RECURSIVE LeRem(_, _)
LeRem(h, m) ==
    IF h = <<>> THEN 0
    ELSE (Head(h) + 256 * (LeRem(Tail(h), m) % (m \div 256))) % m

\* PowHashIsZeroRem reading the hash as a little-endian integer.
PowHashIsZeroRem_LittleEndian(h) ==
    LeRem(h, POW_DIFFICULTY_U256) = 0

\* secret.rs 96: U256::from_be_bytes(*pow_hash).rem(POW_DIFFICULTY_U256)
\* .is_zero().
PowHashIsZeroRem(h) ==
    BeRem(h, POW_DIFFICULTY_U256, 0) = 0

is_valid_wormhole_secret(secret) ==
    PowHashIsZeroRem(proof_of_work_secret_hash(secret))

\* Address::from_slice(&hash[12..]): the digest without its leading bytes
\* (12 of 32, scaled to the tag byte).
\* secret.rs 73: [&[MAGIC_ADDRESS], self.0.as_ref()].concat()
BurnAddressPreimage(secret) == <<MAGIC_ADDRESS>> \o secret

burn_address(secret) ==
    LET address_hash == Sha256(BurnAddressPreimage(secret))
    IN  SubSeq(address_hash, 2, Len(address_hash))

\* U256::as_le_slice without the zero bytes at its end.
RECURSIVE TrimmedLeSlice(_)
TrimmedLeSlice(n) ==
    IF n = 0 THEN <<>> ELSE <<n % 256>> \o TrimmedLeSlice(n \div 256)

\* NullifierPreimage with the index in as few bytes as it takes.
NullifierPreimage_Trimmed(secret, index) ==
    <<MAGIC_NULLIFIER>> \o secret \o TrimmedLeSlice(index)

\* secret.rs 80: [&[MAGIC_NULLIFIER], self.0.as_ref(), index.as_le_slice()]
\* .concat()
NullifierPreimage(secret, index) ==
    <<MAGIC_NULLIFIER>> \o secret \o AsLeSlice(index)

nullifier(secret, index) == Sha256(NullifierPreimage(secret, index))

(***************************************************************************)
(* RLP framing (alloy_rlp).  An item is a header, <<128, n>> for a string  *)
(* of n bytes and <<192, n>> for a list with an n-byte payload, followed   *)
(* by the payload.  Integers are minimal big-endian strings, zero the      *)
(* empty string.                                                           *)
(***************************************************************************)
RlpStr(bytes) == <<128, Len(bytes)>> \o bytes

RlpList(payload) == <<192, Len(payload)>> \o payload

RlpUint(n) == RlpStr(IF n = 0 THEN <<>> ELSE <<n>>)

\* alloy_rlp::encode_fixed_size(&B256): the digest as an RLP string.
RlpEncodeFixedSize(hash) == RlpStr(hash)

\* keccak256 of the RLP of the empty string, and of the empty string.
EMPTY_ROOT_HASH == Keccak256(RlpStr(<<>>))

KECCAK_EMPTY == Keccak256(<<>>)

\* TrieAccount { balance, ..Default::default() }
DefaultAccountWith(balance) ==
    [nonce |-> 0, balance |-> balance,
     storage_root |-> EMPTY_ROOT_HASH, code_hash |-> KECCAK_EMPTY]

\* alloy_rlp::encode(TrieAccount): the list of the four fields.
RlpAccount(a) ==
    RlpList(RlpUint(a.nonce) \o RlpUint(a.balance)
            \o RlpStr(a.storage_root) \o RlpStr(a.code_hash))

\* One RLP string item starting at position pos of bytes.
RlpItem(bytes, pos) ==
    IF pos + 1 > Len(bytes) \/ bytes[pos] # 128
       \/ pos + 1 + bytes[pos + 1] > Len(bytes)
    THEN [ok |-> FALSE, body |-> <<>>, next |-> pos]
    ELSE [ok |-> TRUE,
          body |-> SubSeq(bytes, pos + 2, pos + 1 + bytes[pos + 1]),
          next |-> pos + 2 + bytes[pos + 1]]

\* A minimal big-endian integer of at most one byte (no leading zero).
RlpUintOk(body) == Len(body) = 0 \/ (Len(body) = 1 /\ body[1] # 0)

RlpUintValue(body) == IF Len(body) = 0 THEN 0 ELSE body[1]

\* TrieAccount::decode: a list of exactly four items, two of them integers.
DecodeAccount(bytes) ==
    LET bad == [ok |-> FALSE, account |-> DefaultAccountWith(0)]
    IN  IF Len(bytes) < 2 \/ bytes[1] # 192 \/ bytes[2] # Len(bytes) - 2
        THEN bad
        ELSE LET i1 == RlpItem(bytes, 3)
                 i2 == RlpItem(bytes, i1.next)
                 i3 == RlpItem(bytes, i2.next)
                 i4 == RlpItem(bytes, i3.next)
             IN  IF i1.ok /\ i2.ok /\ i3.ok /\ i4.ok
                    /\ i4.next = Len(bytes) + 1
                    /\ RlpUintOk(i1.body) /\ RlpUintOk(i2.body)
                 THEN [ok |-> TRUE,
                       account |-> [nonce |-> RlpUintValue(i1.body),
                                    balance |-> RlpUintValue(i2.body),
                                    storage_root |-> i3.body,
                                    code_hash |-> i4.body]]
                 ELSE bad

(***************************************************************************)
(* Trie nodes (alloy_trie::nodes::TrieNode).  A proof element is held in   *)
(* decoded form: kind is "leaf", "extension", "branch", or "bad" for bytes *)
(* that do not decode as a node.  ref is the extension's child, children   *)
(* the branch's sixteen slots (<<>> is the empty slot).  Children are      *)
(* always referred to by hash: every node of the tries below encodes to    *)
(* 32 bytes or more.                                                       *)
(***************************************************************************)
NoChildren == [i \in 1..16 |-> <<>>]

Leaf(key, value) ==
    [kind |-> "leaf", key |-> key, value |-> value, ref |-> <<>>,
     children |-> NoChildren]

Extension(key, child) ==
    [kind |-> "extension", key |-> key, value |-> <<>>, ref |-> child,
     children |-> NoChildren]

Branch(children) ==
    [kind |-> "branch", key |-> <<>>, value |-> <<>>, ref |-> <<>>,
     children |-> children]

BadNode(bytes) ==
    [kind |-> "bad", key |-> <<>>, value |-> bytes, ref |-> <<>>,
     children |-> NoChildren]

\* Nibbles::unpack: two nibbles per byte, high nibble first.
RECURSIVE Unpack(_)
Unpack(bytes) ==
    IF bytes = <<>> THEN <<>>
    ELSE <<Head(bytes) \div 16, Head(bytes) % 16>> \o Unpack(Tail(bytes))

RECURSIVE RlpChildren(_, _)
RlpChildren(children, i) ==
    IF i > 16 THEN <<>>
    ELSE RlpStr(children[i]) \o RlpChildren(children, i + 1)

\* The RLP of a node; the path carries the hex-prefix flag (2 leaf, 0 not).
EncodeNode(n) ==
    CASE n.kind = "leaf" ->
           RlpList(RlpStr(<<2>> \o n.key) \o RlpStr(n.value))
      [] n.kind = "extension" ->
           RlpList(RlpStr(<<0>> \o n.key) \o RlpStr(n.ref))
      [] n.kind = "branch" ->
           RlpList(RlpChildren(n.children, 1) \o RlpStr(<<>>))
      [] OTHER -> n.value

\* The reference by which a parent (or the root) names a node.
NodeRef(n) == Keccak256(EncodeNode(n))

(***************************************************************************)
(* The proof verifier (alloy_trie::proof::verify_proof).  expected is <<>> *)
(* for None and <<v>> for Some(v); the result is "Ok" or the failure kind. *)
(***************************************************************************)
IsPrefix(p, s) == Len(p) <= Len(s) /\ SubSeq(s, 1, Len(p)) = p

\* The path diverges or a needed child is empty: a witness of exclusion.
Exclusion(nodes, i, expected, kind) ==
    IF expected # <<>> THEN kind
    ELSE IF i < Len(nodes) THEN "TrailingNodes" ELSE "Ok"

RECURSIVE Walk(_, _, _, _, _, _)
Walk(nodes, i, expected_hash, cursor, key, expected) ==
    IF i > Len(nodes) THEN "ProofIncomplete"
    ELSE
      LET n == nodes[i]
          rest == SubSeq(key, cursor + 1, Len(key))
      IN  IF NodeRef(n) # expected_hash THEN "NodeHashMismatch"
          ELSE CASE n.kind = "bad" -> "RlpDecode"
            [] n.kind = "branch" ->
                 IF rest = <<>>
                 THEN Exclusion(nodes, i, expected, "ValueMismatch")
                 ELSE LET child == n.children[rest[1] + 1]
                      IN  IF child = <<>>
                          THEN Exclusion(nodes, i, expected, "ValueMismatch")
                          ELSE Walk(nodes, i + 1, child, cursor + 1,
                                    key, expected)
            [] n.kind = "extension" ->
                 IF IsPrefix(n.key, rest)
                 THEN Walk(nodes, i + 1, n.ref, cursor + Len(n.key),
                           key, expected)
                 ELSE Exclusion(nodes, i, expected, "PathMismatch")
            [] OTHER ->
                 IF n.key # rest
                 THEN Exclusion(nodes, i, expected, "PathMismatch")
                 ELSE IF expected # <<n.value>> THEN "ValueMismatch"
                 ELSE IF i < Len(nodes) THEN "TrailingNodes"
                 ELSE "Ok"

VerifyProof(root, key, expected, nodes) ==
    IF nodes = <<>>
    THEN IF expected = <<>> /\ root = EMPTY_ROOT_HASH
         THEN "Ok" ELSE "ProofIncomplete"
    ELSE Walk(nodes, 1, root, 0, key, expected)

(***************************************************************************)
(* Reference tries: the proofs an honest host fetches with eth_getProof    *)
(* (bin/wormhole/src/create_input.rs).  A world is a state trie with two   *)
(* accounts, the burn account of a secret and the nullifier registry,      *)
(* whose storage trie binds one previous nullifier to the hash of the      *)
(* amount withdrawn so far.                                                *)
(***************************************************************************)
RECURSIVE CommonPrefixLen(_, _)
CommonPrefixLen(a, b) ==
    IF a = <<>> \/ b = <<>> \/ Head(a) # Head(b) THEN 0
    ELSE 1 + CommonPrefixLen(Tail(a), Tail(b))

\* The proof of k1 in the trie that holds k1 -> v1 and k2 -> v2.
TwoKeyProof(k1, v1, k2, v2) ==
    LET p == CommonPrefixLen(k1, k2)
        leaf1 == Leaf(SubSeq(k1, p + 2, Len(k1)), v1)
        leaf2 == Leaf(SubSeq(k2, p + 2, Len(k2)), v2)
        branch == Branch([i \in 1..16 |->
                            IF i = k1[p + 1] + 1 THEN NodeRef(leaf1)
                            ELSE IF i = k2[p + 1] + 1 THEN NodeRef(leaf2)
                            ELSE <<>>])
    IN  IF p = 0 THEN <<branch, leaf1>>
        ELSE <<Extension(SubSeq(k1, 1, p), NodeRef(branch)), branch, leaf1>>

\* secret.rs TEST_SECRET, a second valid secret, and the invalid secret of
\* tests::invalid_secret.
TEST_SECRET == <<0, 0, 0, 0, 1, 48, 93, 198>>

OtherSecret == <<0, 0, 0, 0, 0, 0, 3, 4>>

UncheckedSecret == <<1, 2, 3>>

Secrets == {TEST_SECRET, OtherSecret, UncheckedSecret}

\* Two candidate addresses of the nullifier contract.
RegistryAddress == <<0, 0, 0, 0, 0, 0, 0, 0, 0, 0, 0, 16>>

OtherAddress == <<0, 0, 0, 0, 0, 0, 0, 0, 0, 0, 0, 17>>

World(secret, balance, prev_index, cum) ==
    [secret |-> secret, balance |-> balance, registry |-> RegistryAddress,
     prev_index |-> prev_index, cum |-> cum]

StorageProof(w) ==
    <<Leaf(Unpack(Keccak256(nullifier(w.secret, w.prev_index))),
           RlpEncodeFixedSize(Keccak256(ToBeBytes(w.cum))))>>

RegistryAccount(w) ==
    [nonce |-> 1, balance |-> 0,
     storage_root |-> NodeRef(StorageProof(w)[1]),
     code_hash |-> Keccak256(<<96>>)]

BurnKey(w) == Unpack(Keccak256(burn_address(w.secret)))

RegistryKey(w) == Unpack(Keccak256(w.registry))

DepositProof(w) ==
    TwoKeyProof(BurnKey(w), RlpAccount(DefaultAccountWith(w.balance)),
                RegistryKey(w), RlpAccount(RegistryAccount(w)))

RegistryProof(w) ==
    TwoKeyProof(RegistryKey(w), RlpAccount(RegistryAccount(w)),
                BurnKey(w), RlpAccount(DefaultAccountWith(w.balance)))

StateRoot(w) == NodeRef(DepositProof(w)[1])

Worlds ==
    {World(TEST_SECRET, 3, 0, 1), World(TEST_SECRET, 3, 1, 2),
     World(OtherSecret, 2, 0, 1)}

Front(s) == SubSeq(s, 1, Len(s) - 1)

(***************************************************************************)
(* WormholeProgramInput: the inputs the executor is run on.  The amounts,  *)
(* the index and the secret range over all their values; the state root,   *)
(* the registry address and the three proofs are those of a world for      *)
(* that index (create_input.rs 72-81: no storage proof at index 0), or     *)
(* differ from them in one field: another world's root or proof, the       *)
(* proof of the other account, a proof cut short or continued, a proof    *)
(* ending in bytes that are no node or in a leaf that holds no account,    *)
(* no proof; or they are those of a state trie without the registry.       *)
(***************************************************************************)
HonestEnv(w, index) ==
    [state_root |-> StateRoot(w),
     deposit_account_proof |-> DepositProof(w),
     nullifier_address |-> w.registry,
     nullifier_account_proof |-> RegistryProof(w),
     previous_nullifier_storage_proof |->
         IF index = 0 THEN <<>> ELSE StorageProof(w)]

\* WormholeProgramInput::default() (tests): zero root and address, no proofs.
DefaultEnv ==
    [state_root |-> <<0, 0>>,
     deposit_account_proof |-> <<>>,
     nullifier_address |-> <<0, 0, 0, 0, 0, 0, 0, 0, 0, 0, 0, 0>>,
     nullifier_account_proof |-> <<>>,
     previous_nullifier_storage_proof |-> <<>>]

StateRoots == {StateRoot(w) : w \in Worlds} \cup {EMPTY_ROOT_HASH}

DepositProofs(w) ==
    {DepositProof(v) : v \in Worlds}
    \cup {<<>>, RegistryProof(w), Front(DepositProof(w)),
          DepositProof(w) \o StorageProof(w),
          Front(DepositProof(w)) \o <<BadNode(<<255>>)>>}

NullifierProofs(w) ==
    {RegistryProof(v) : v \in Worlds}
    \cup {<<>>, DepositProof(w), Front(RegistryProof(w)),
          Front(Front(RegistryProof(w))),
          RegistryProof(w) \o StorageProof(w),
          Front(RegistryProof(w)) \o <<BadNode(<<255>>)>>,
          Front(RegistryProof(w)) \o StorageProof(w)}

StorageProofs(w) ==
    {StorageProof(v) : v \in Worlds}
    \cup {<<>>, StorageProof(w) \o StorageProof(w)}

\* The state trie that holds the burn account of w and nothing else: the
\* proof of any key is its only node.  The registry address is that of w,
\* or the burn address itself.
SoloProof(w) ==
    <<Leaf(BurnKey(w), RlpAccount(DefaultAccountWith(w.balance)))>>

SoloEnvs(w) ==
    {[state_root |-> NodeRef(SoloProof(w)[1]),
      deposit_account_proof |-> SoloProof(w),
      nullifier_address |-> a,
      nullifier_account_proof |-> p,
      previous_nullifier_storage_proof |-> <<>>] :
        <<a, p>> \in {<<w.registry, SoloProof(w)>>, <<w.registry, <<>> >>,
                      <<burn_address(w.secret), SoloProof(w)>>}}

\* The state trie that holds the burn accounts of the two valid secrets:
\* the proof of the account of secret in it.
PoolProof(secret) ==
    LET other == IF secret = TEST_SECRET THEN OtherSecret ELSE TEST_SECRET
        balance(s) == IF s = TEST_SECRET THEN 3 ELSE 2
    IN  TwoKeyProof(Unpack(Keccak256(burn_address(secret))),
                    RlpAccount(DefaultAccountWith(balance(secret))),
                    Unpack(Keccak256(burn_address(other))),
                    RlpAccount(DefaultAccountWith(balance(other))))

\* Two depositors under one state root: the proofs of the pool for the
\* secret of w, the nullifier address being an account of the pool.
PoolEnv(w) ==
    [state_root |-> NodeRef(PoolProof(w.secret)[1]),
     deposit_account_proof |-> PoolProof(w.secret),
     nullifier_address |-> burn_address(OtherSecret),
     nullifier_account_proof |-> PoolProof(OtherSecret),
     previous_nullifier_storage_proof |-> <<>>]

Envs(w, index) ==
    LET h == HonestEnv(w, index)
    IN  {h, DefaultEnv, PoolEnv(w)}
        \cup SoloEnvs(w)
        \cup {[h EXCEPT !.state_root = x] : x \in StateRoots}
        \cup {[h EXCEPT !.deposit_account_proof = x] : x \in DepositProofs(w)}
        \cup {[h EXCEPT !.nullifier_address = x] :
                 x \in {RegistryAddress, OtherAddress}}
        \cup {[h EXCEPT !.nullifier_account_proof = x] :
                 x \in NullifierProofs(w)}
        \cup {[h EXCEPT !.previous_nullifier_storage_proof = x] :
                 x \in StorageProofs(w)}

Scalars ==
    [secret : Secrets,
     deposit_amount : U256,
     withdraw_amount : U256,
     cumulative_withdrawn_amount : U256,
     withdrawal_index : 0..MaxIndex]

ProgramInput(sc, env) ==
    [secret |-> sc.secret,
     deposit_amount |-> sc.deposit_amount,
     withdraw_amount |-> sc.withdraw_amount,
     cumulative_withdrawn_amount |-> sc.cumulative_withdrawn_amount,
     withdrawal_index |-> sc.withdrawal_index,
     state_root |-> env.state_root,
     deposit_account_proof |-> env.deposit_account_proof,
     nullifier_address |-> env.nullifier_address,
     nullifier_account_proof |-> env.nullifier_account_proof,
     previous_nullifier_storage_proof |->
         env.previous_nullifier_storage_proof]

\* The environments of every world, for a first and for a later withdrawal.
EnvCatalogue == [w \in Worlds, first \in BOOLEAN |->
                    Envs(w, IF first THEN 0 ELSE 1)]

IsInput(i) ==
    \E sc \in Scalars, w \in Worlds :
        \E env \in EnvCatalogue[w, sc.withdrawal_index = 0] :
            i = ProgramInput(sc, env)

(***************************************************************************)
(* execute_wormhole_program (crates/program-core/src/lib.rs), check by     *)
(* check.  A result is Ok with an output, Err with an error kind (and the  *)
(* verifier's failure kind for Proof), or Panic when the call aborts.      *)
(***************************************************************************)
NoOutput ==
    [nullifier_address |-> <<>>, state_root |-> <<>>, withdraw_amount |-> 0,
     current_nullifier |-> <<>>, cumulative_withdrawn_amount_hashed |-> <<>>]

NoResult == [kind |-> "none", error |-> "", detail |-> "", output |-> NoOutput]

Err(error, detail) ==
    [kind |-> "Err", error |-> error, detail |-> detail, output |-> NoOutput]

Panic(message) ==
    [kind |-> "Panic", error |-> "", detail |-> message, output |-> NoOutput]

Ok(output) == [kind |-> "Ok", error |-> "", detail |-> "", output |-> output]

\* SecretIsValid with the validation left out.
SecretIsValid_Skipped(i) == TRUE

\* lib.rs 41: input.secret.is_valid()
SecretIsValid(i) == is_valid_wormhole_secret(i.secret)

\* InvalidWithdrawAmount without the comparison with the deposit.
InvalidWithdrawAmount_NoDepositCheck(i) ==
    \/ i.withdraw_amount = 0
    \/ CheckedAdd(i.withdraw_amount, i.cumulative_withdrawn_amount) = <<>>

\* InvalidWithdrawAmount without the zero test.
InvalidWithdrawAmount_ZeroAllowed(i) ==
    LET next_cumulative_withdrawn_amount ==
            CheckedAdd(i.withdraw_amount, i.cumulative_withdrawn_amount)
    IN  \/ next_cumulative_withdrawn_amount = <<>>
        \/ next_cumulative_withdrawn_amount[1] > i.deposit_amount

\* InvalidWithdrawAmount with a wrapping addition.
InvalidWithdrawAmount_Wrapping(i) ==
    \/ i.withdraw_amount = 0
    \/ (i.withdraw_amount + i.cumulative_withdrawn_amount) % (UMax + 1)
           > i.deposit_amount

\* InvalidWithdrawAmount comparing the withdrawal alone with the deposit.
InvalidWithdrawAmount_IgnoresCumulative(i) ==
    \/ i.withdraw_amount = 0
    \/ CheckedAdd(i.withdraw_amount, i.cumulative_withdrawn_amount) = <<>>
    \/ i.withdraw_amount > i.deposit_amount

\* InvalidWithdrawAmount rejecting a withdrawal that uses up the deposit.
InvalidWithdrawAmount_Strict(i) ==
    \/ i.withdraw_amount = 0
    \/ LET next_cumulative_withdrawn_amount ==
               CheckedAdd(i.withdraw_amount, i.cumulative_withdrawn_amount)
       IN  \/ next_cumulative_withdrawn_amount = <<>>
           \/ next_cumulative_withdrawn_amount[1] >= i.deposit_amount

\* lib.rs 46-55: TRUE when the amounts are rejected.
InvalidWithdrawAmount(i) ==
    \/ i.withdraw_amount = 0
    \/ LET next_cumulative_withdrawn_amount ==
               CheckedAdd(i.withdraw_amount, i.cumulative_withdrawn_amount)
       IN  \/ next_cumulative_withdrawn_amount = <<>>
           \/ next_cumulative_withdrawn_amount[1] > i.deposit_amount

\* FirstWithdrawalPanic with the check left out.
FirstWithdrawalPanic_Skipped(i) == ""

\* lib.rs 58-66: the panic message of the first-withdrawal check, "" if none.
FirstWithdrawalPanic(i) ==
    IF i.withdrawal_index # 0 THEN ""
    ELSE IF i.cumulative_withdrawn_amount # 0
    THEN "cumulative withdrawn amount must be 0 for first withdrawal"
    ELSE IF i.previous_nullifier_storage_proof # <<>>
    THEN "storage proof for previous nullifier must be empty"
    ELSE ""

\* VerifyDepositProof expecting the withdrawn amount as the balance.
VerifyDepositProof_WithdrawBalance(i) ==
    LET deposit_address == burn_address(i.secret)
        deposit_address_nibbles == Unpack(Keccak256(deposit_address))
        expected == RlpAccount(DefaultAccountWith(i.withdraw_amount))
    IN  VerifyProof(i.state_root, deposit_address_nibbles, <<expected>>,
                    i.deposit_account_proof)

\* VerifyDepositProof checking the first node against the root only.
VerifyDepositProof_RootOnly(i) ==
    IF i.deposit_account_proof # <<>>
       /\ NodeRef(i.deposit_account_proof[1]) = i.state_root
    THEN "Ok"
    ELSE "NodeHashMismatch"

\* lib.rs 69-80: the deposit account proof.
VerifyDepositProof(i) ==
    LET deposit_address == burn_address(i.secret)
        deposit_address_nibbles == Unpack(Keccak256(deposit_address))
        expected == RlpAccount(DefaultAccountWith(i.deposit_amount))
    IN  VerifyProof(i.state_root, deposit_address_nibbles, <<expected>>,
                    i.deposit_account_proof)

\* VerifyNullifierAccountProof trusting the account of the last leaf without
\* verifying the proof against the state root.
VerifyNullifierAccountProof_Unverified(i) ==
    LET proof == i.nullifier_account_proof
        none == DefaultAccountWith(0)
    IN  IF proof = <<>>
        THEN [result |-> Panic("called Option::unwrap() on a None value"),
              account |-> none]
        ELSE
          LET nullifier_node == proof[Len(proof)]
              decoded == DecodeAccount(nullifier_node.value)
          IN  IF nullifier_node.kind = "bad"
              THEN [result |-> Err("Rlp", ""), account |-> none]
              ELSE IF nullifier_node.kind # "leaf"
              THEN [result |-> Err("NullifierAccountMissing", ""),
                    account |-> none]
              ELSE IF ~decoded.ok
              THEN [result |-> Err("Rlp", ""), account |-> none]
              ELSE [result |-> NoResult, account |-> decoded.account]

\* VerifyNullifierAccountProof taking the last node for the account leaf
\* whatever its kind.
VerifyNullifierAccountProof_AnyNode(i) ==
    LET nullifier_address_nibbles == Unpack(Keccak256(i.nullifier_address))
        proof == i.nullifier_account_proof
        none == DefaultAccountWith(0)
    IN  IF proof = <<>>
        THEN [result |-> Panic("called Option::unwrap() on a None value"),
              account |-> none]
        ELSE
          LET nullifier_node == proof[Len(proof)]
              decoded == DecodeAccount(nullifier_node.value)
          IN  IF nullifier_node.kind = "bad" \/ ~decoded.ok
              THEN [result |-> Err("Rlp", ""), account |-> none]
              ELSE LET v == VerifyProof(i.state_root,
                                        nullifier_address_nibbles,
                                        <<nullifier_node.value>>, proof)
                   IN  IF v # "Ok"
                       THEN [result |-> Err("Proof", v), account |-> none]
                       ELSE [result |-> NoResult,
                             account |-> decoded.account]

\* lib.rs 83-99: the nullifier account proof; the result of the step and
\* the account decoded from the last node.
VerifyNullifierAccountProof(i) ==
    LET nullifier_address_nibbles == Unpack(Keccak256(i.nullifier_address))
        proof == i.nullifier_account_proof
        none == DefaultAccountWith(0)
    IN  IF proof = <<>>
        THEN [result |-> Panic("called Option::unwrap() on a None value"),
              account |-> none]
        ELSE
          LET nullifier_node == proof[Len(proof)]
              decoded == DecodeAccount(nullifier_node.value)
          IN  IF nullifier_node.kind = "bad"
              THEN [result |-> Err("Rlp", ""), account |-> none]
              ELSE IF nullifier_node.kind # "leaf"
              THEN [result |-> Err("NullifierAccountMissing", ""),
                    account |-> none]
              ELSE IF ~decoded.ok
              THEN [result |-> Err("Rlp", ""), account |-> none]
              ELSE LET v == VerifyProof(i.state_root,
                                        nullifier_address_nibbles,
                                        <<nullifier_node.value>>, proof)
                   IN  IF v # "Ok"
                       THEN [result |-> Err("Proof", v), account |-> none]
                       ELSE [result |-> NoResult,
                             account |-> decoded.account]

\* CumulativeWithdrawnAmountHashed of the amount after this withdrawal.
CumulativeWithdrawnAmountHashed_Next(i) ==
    Keccak256(ToBeBytes(i.withdraw_amount + i.cumulative_withdrawn_amount))

\* lib.rs 102-103
CumulativeWithdrawnAmountHashed(i) ==
    Keccak256(ToBeBytes(i.cumulative_withdrawn_amount))

\* PreviousWithdrawalIndex subtracting whatever the index is.
PreviousWithdrawalIndex_Unguarded(i) ==
    <<(i.withdrawal_index - 1) % (UMax + 1)>>

\* lib.rs 104-105: withdrawal_index - U256::from(1), evaluated (<<k>>) when
\* the index is not zero, not evaluated (<<>>) otherwise.  The subtraction
\* of U256 wraps.
PreviousWithdrawalIndex(i) ==
    IF i.withdrawal_index = 0 THEN <<>>
    ELSE <<(i.withdrawal_index - 1) % (UMax + 1)>>

\* VerifyPreviousNullifierProof looking up the nullifier of the current index.
VerifyPreviousNullifierProof_CurrentIndex(i, account) ==
    IF i.withdrawal_index = 0 THEN "Ok"
    ELSE
      LET previous_nullifier == nullifier(i.secret, i.withdrawal_index)
          previous_nullifier_nibbles == Unpack(Keccak256(previous_nullifier))
          expected == RlpEncodeFixedSize(CumulativeWithdrawnAmountHashed(i))
      IN  VerifyProof(account.storage_root, previous_nullifier_nibbles,
                      <<expected>>, i.previous_nullifier_storage_proof)

\* lib.rs 104-115: the previous nullifier's storage proof.
VerifyPreviousNullifierProof(i, account) ==
    IF i.withdrawal_index = 0 THEN "Ok"
    ELSE
      LET previous_nullifier ==
              nullifier(i.secret, PreviousWithdrawalIndex(i)[1])
          previous_nullifier_nibbles == Unpack(Keccak256(previous_nullifier))
          expected == RlpEncodeFixedSize(CumulativeWithdrawnAmountHashed(i))
      IN  VerifyProof(account.storage_root, previous_nullifier_nibbles,
                      <<expected>>, i.previous_nullifier_storage_proof)

\* CurrentNullifier returning the previous nullifier again.
CurrentNullifier_Previous(i) ==
    nullifier(i.secret,
              IF i.withdrawal_index = 0 THEN 0 ELSE i.withdrawal_index - 1)

\* lib.rs 118
CurrentNullifier(i) == nullifier(i.secret, i.withdrawal_index)

\* ProgramOutput reporting the new cumulative amount as the withdrawn one.
ProgramOutput_Cumulative(i, hashed) ==
    [nullifier_address |-> i.nullifier_address,
     state_root |-> i.state_root,
     withdraw_amount |-> i.withdraw_amount + i.cumulative_withdrawn_amount,
     current_nullifier |-> CurrentNullifier(i),
     cumulative_withdrawn_amount_hashed |-> hashed]

\* ProgramOutput reporting the burn address of the deposit as well.
ProgramOutput_BurnAddress(i, hashed) ==
    [nullifier_address |-> burn_address(i.secret),
     state_root |-> i.state_root,
     withdraw_amount |-> i.withdraw_amount,
     current_nullifier |-> CurrentNullifier(i),
     cumulative_withdrawn_amount_hashed |-> hashed]

\* lib.rs 121-127
ProgramOutput(i, hashed) ==
    [nullifier_address |-> i.nullifier_address,
     state_root |-> i.state_root,
     withdraw_amount |-> i.withdraw_amount,
     current_nullifier |-> CurrentNullifier(i),
     cumulative_withdrawn_amount_hashed |-> hashed]

(***************************************************************************)
(* Accepted inputs with one byte changed.  A changed byte of a node leaves *)
(* bytes that decode to no node, or a node that differs from the original  *)
(* in one nibble of its key, in one byte of its value or of a reference,   *)
(* or in the flag that tells a leaf from an extension.                     *)
(***************************************************************************)
\* The byte (or nibble) string s with its k-th element changed.
Bump(s, k, base) == [s EXCEPT ![k] = (@ + 1) % base]

\* A change of the first or of the last nibble of a key, of the first or of
\* the last byte of a hash, of any byte of a value.
BumpedKeys(key) == {Bump(key, k, 16) : k \in {1, Len(key)} \cap 1..Len(key)}

BumpedHashes(hash) == {Bump(hash, k, 256) : k \in {1, Len(hash)} \cap 1..Len(hash)}

BumpedBytes(bytes) == {Bump(bytes, k, 256) : k \in 1..Len(bytes)}

TamperedNodes(n) ==
    {BadNode(Bump(EncodeNode(n), 1, 256))}
    \cup (IF n.kind = "leaf"
          THEN {Leaf(k, n.value) : k \in BumpedKeys(n.key)}
               \cup {Leaf(n.key, v) : v \in BumpedBytes(n.value)}
               \cup {Extension(n.key, n.value)}
          ELSE IF n.kind = "extension"
          THEN {Extension(k, n.ref) : k \in BumpedKeys(n.key)}
               \cup {Extension(n.key, r) : r \in BumpedHashes(n.ref)}
               \cup {Leaf(n.key, n.ref)}
          ELSE IF n.kind = "branch"
          THEN {Branch([n.children EXCEPT ![c] = r]) :
                   <<c, r>> \in UNION {{c} \X BumpedHashes(n.children[c]) :
                                          c \in 1..16}}
          ELSE {})

TamperedProofs(proof) ==
    UNION {{[proof EXCEPT ![j] = n] : n \in TamperedNodes(proof[j])} :
              j \in 1..Len(proof)}

TamperedInputs(i) ==
    {[i EXCEPT !.state_root = r] : r \in BumpedHashes(i.state_root)}
    \cup {[i EXCEPT !.deposit_account_proof = p] :
             p \in TamperedProofs(i.deposit_account_proof)}
    \cup {[i EXCEPT !.nullifier_account_proof = p] :
             p \in TamperedProofs(i.nullifier_account_proof)}
    \cup {[i EXCEPT !.previous_nullifier_storage_proof = p] :
             p \in TamperedProofs(i.previous_nullifier_storage_proof)}

\* lib.rs 37-128: the result of the whole call on i.
Execute(i) ==
    IF ~SecretIsValid(i) THEN Err("InvalidSecret", "")
    ELSE IF InvalidWithdrawAmount(i) THEN Err("InvalidWithdrawAmount", "")
    ELSE IF FirstWithdrawalPanic(i) # "" THEN Panic(FirstWithdrawalPanic(i))
    ELSE IF VerifyDepositProof(i) # "Ok"
    THEN Err("Proof", VerifyDepositProof(i))
    ELSE
      LET r == VerifyNullifierAccountProof(i)
          v == VerifyPreviousNullifierProof(i, r.account)
      IN  IF r.result.kind # "none" THEN r.result
          ELSE IF v # "Ok" THEN Err("Proof", v)
          ELSE Ok(ProgramOutput(i, CumulativeWithdrawnAmountHashed(i)))

\* The call returns Ok on i.
ExecutesOk(i) == Execute(i).kind = "Ok"

\* i is an input that a host built for a world and that the call accepts.
IsAccepted(i) ==
    \E sc \in Scalars, w \in Worlds :
        /\ i = ProgramInput(sc, HonestEnv(w, sc.withdrawal_index))
        /\ ExecutesOk(i)

Init ==
    /\ \/ /\ IsInput(input)
          /\ original = input
       \/ /\ IsAccepted(original)
          /\ input \in TamperedInputs(original)
    /\ pc = "secret"
    /\ nullifier_account = DefaultAccountWith(0)
    /\ cumulative_withdrawn_amount_hashed = <<>>
    /\ result = NoResult
    /\ program = "core"
    /\ journal = <<>>
    /\ previous_withdrawal_index = <<>>
    /\ SecretIdle

Return(r) ==
    /\ result' = r
    /\ pc' = "done"
    /\ UNCHANGED <<original, program, journal, secret_vars>>

Continue(next) ==
    /\ pc' = next
    /\ result' = result
    /\ UNCHANGED <<original, program, journal, secret_vars>>

\* ValidateSecret going on to the proofs, past the amount and index checks.
ValidateSecret_ThenDeposit ==
    /\ pc = "secret"
    /\ IF ~SecretIsValid(input)
       THEN Return(Err("InvalidSecret", ""))
       ELSE Continue("deposit")
    /\ UNCHANGED <<input, nullifier_account, cumulative_withdrawn_amount_hashed,
                   previous_withdrawal_index>>

ValidateSecret ==
    /\ pc = "secret"
    /\ IF ~SecretIsValid(input)
       THEN Return(Err("InvalidSecret", ""))
       ELSE Continue("amount")
    /\ UNCHANGED <<input, nullifier_account, cumulative_withdrawn_amount_hashed,
                   previous_withdrawal_index>>

ValidateWithdrawAmount ==
    /\ pc = "amount"
    /\ IF InvalidWithdrawAmount(input)
       THEN Return(Err("InvalidWithdrawAmount", ""))
       ELSE Continue("index")
    /\ UNCHANGED <<input, nullifier_account, cumulative_withdrawn_amount_hashed,
                   previous_withdrawal_index>>

ValidateWithdrawalIndex ==
    /\ pc = "index"
    /\ IF FirstWithdrawalPanic(input) # ""
       THEN Return(Panic(FirstWithdrawalPanic(input)))
       ELSE Continue("deposit")
    /\ UNCHANGED <<input, nullifier_account, cumulative_withdrawn_amount_hashed,
                   previous_withdrawal_index>>

VerifyDepositAccount ==
    /\ pc = "deposit"
    /\ LET v == VerifyDepositProof(input)
       IN  IF v # "Ok" THEN Return(Err("Proof", v))
           ELSE Continue("nullifier")
    /\ UNCHANGED <<input, nullifier_account, cumulative_withdrawn_amount_hashed,
                   previous_withdrawal_index>>

VerifyNullifierAccount ==
    /\ pc = "nullifier"
    /\ LET r == VerifyNullifierAccountProof(input)
       IN  /\ IF r.result.kind # "none" THEN Return(r.result)
              ELSE Continue("previous")
           /\ nullifier_account' = r.account
    /\ UNCHANGED <<input, cumulative_withdrawn_amount_hashed,
                   previous_withdrawal_index>>

VerifyPreviousNullifier ==
    /\ pc = "previous"
    /\ cumulative_withdrawn_amount_hashed' =
           CumulativeWithdrawnAmountHashed(input)
    /\ previous_withdrawal_index' = PreviousWithdrawalIndex(input)
    /\ LET v == VerifyPreviousNullifierProof(input, nullifier_account)
       IN  IF v # "Ok" THEN Return(Err("Proof", v))
           ELSE Continue("output")
    /\ UNCHANGED <<input, nullifier_account>>

ReturnOutput ==
    /\ pc = "output"
    /\ Return(Ok(ProgramOutput(input, cumulative_withdrawn_amount_hashed)))
    /\ UNCHANGED <<input, nullifier_account, cumulative_withdrawn_amount_hashed,
                   previous_withdrawal_index>>

Next ==
    \/ ValidateSecret
    \/ ValidateWithdrawAmount
    \/ ValidateWithdrawalIndex
    \/ VerifyDepositAccount
    \/ VerifyNullifierAccount
    \/ VerifyPreviousNullifier
    \/ ReturnOutput

Spec == Init /\ [][Next]_vars

Succeeded == pc = "done" /\ result.kind = "Ok"

(***************************************************************************)
(* Properties of execute_wormhole_program.                                 *)
(***************************************************************************)
Finished == pc = "done"

\* The number of key nibbles that the nodes before the i-th of a proof use.
RECURSIVE Consumed(_, _)
Consumed(proof, i) ==
    IF i <= 1 THEN 0
    ELSE Consumed(proof, i - 1)
         + (IF proof[i - 1].kind = "branch" THEN 1 ELSE Len(proof[i - 1].key))

\* proof is a path of the trie with this root that binds key to value: the
\* first node hashes to the root, every node names the next one by its hash
\* along the key, and the last node is the leaf of the key with the value.
Inclusion(root, key, value, proof) ==
    /\ proof # <<>>
    /\ NodeRef(proof[1]) = root
    /\ \A j \in 1..(Len(proof) - 1) :
          LET n == proof[j]
              c == Consumed(proof, j)
          IN  \/ /\ n.kind = "extension"
                 /\ IsPrefix(n.key, SubSeq(key, c + 1, Len(key)))
                 /\ n.ref = NodeRef(proof[j + 1])
              \/ /\ n.kind = "branch"
                 /\ c < Len(key)
                 /\ n.children[key[c + 1] + 1] = NodeRef(proof[j + 1])
    /\ LET n == proof[Len(proof)]
       IN  /\ n.kind = "leaf"
           /\ n.key = SubSeq(key, Consumed(proof, Len(proof)) + 1, Len(key))
           /\ n.value = value

\* C1 (amount soundness): the call returns Ok only if withdraw_amount > 0
\* and withdraw_amount + cumulative_withdrawn_amount does not overflow and
\* is at most deposit_amount.
C1_AmountSoundness ==
    Succeeded =>
        /\ input.withdraw_amount > 0
        /\ input.withdraw_amount + input.cumulative_withdrawn_amount <= UMax
        /\ input.withdraw_amount + input.cumulative_withdrawn_amount
               <= input.deposit_amount

\* A withdrawal succeeds that is smaller than what is left of the deposit.
C1_Witness ==
    /\ Succeeded
    /\ input.cumulative_withdrawn_amount > 0
    /\ input.withdraw_amount + input.cumulative_withdrawn_amount
           < input.deposit_amount

\* C2 (deposit binding): the call returns Ok only if deposit_account_proof
\* is a path from state_root that binds keccak256(burn_address(secret)) to
\* the RLP of the account with nonce 0, balance deposit_amount, the empty
\* storage root and the empty code hash.
C2_DepositBinding ==
    Succeeded =>
        Inclusion(input.state_root,
                  Unpack(Keccak256(burn_address(input.secret))),
                  RlpAccount([nonce |-> 0,
                              balance |-> input.deposit_amount,
                              storage_root |-> EMPTY_ROOT_HASH,
                              code_hash |-> KECCAK_EMPTY]),
                  input.deposit_account_proof)

\* A call succeeds on a deposit proof of three nodes for a balance of 2.
C2_Witness ==
    /\ Succeeded
    /\ Len(input.deposit_account_proof) = 3
    /\ input.deposit_amount = 2
    /\ input.secret = OtherSecret

\* C3 (previous-nullifier inclusion): for withdrawal_index > 0 the call
\* returns Ok only if the last node of nullifier_account_proof is a leaf
\* bound to keccak256(nullifier_address) under state_root, and
\* previous_nullifier_storage_proof binds, under the storage_root of that
\* leaf's account, keccak256(nullifier(secret, withdrawal_index - 1)) to
\* RLP(keccak256(BE32(cumulative_withdrawn_amount))).
C3_PreviousNullifierInclusion ==
    (Succeeded /\ input.withdrawal_index > 0) =>
        /\ input.nullifier_account_proof # <<>>
        /\ LET proof == input.nullifier_account_proof
               leaf == proof[Len(proof)]
               decoded == DecodeAccount(leaf.value)
           IN  /\ Inclusion(input.state_root,
                            Unpack(Keccak256(input.nullifier_address)),
                            leaf.value, proof)
               /\ decoded.ok
               /\ Inclusion(decoded.account.storage_root,
                            Unpack(Keccak256(nullifier(
                                input.secret, input.withdrawal_index - 1))),
                            RlpStr(Keccak256(ToBeBytes(
                                input.cumulative_withdrawn_amount))),
                            input.previous_nullifier_storage_proof)

\* A third withdrawal succeeds: the proof is for the nullifier of index 1.
C3_Witness ==
    /\ Succeeded
    /\ input.withdrawal_index = 2
    /\ input.previous_nullifier_storage_proof # <<>>

\* C4 (first-withdrawal shape): an Ok result for withdrawal_index = 0 comes
\* with cumulative_withdrawn_amount = 0 and no previous-nullifier proof.
C4_FirstWithdrawalShape ==
    (Succeeded /\ input.withdrawal_index = 0) =>
        /\ input.cumulative_withdrawn_amount = 0
        /\ input.previous_nullifier_storage_proof = <<>>

\* A first withdrawal succeeds.
C4_Witness ==
    /\ Succeeded
    /\ input.withdrawal_index = 0
    /\ input.withdraw_amount = input.deposit_amount

\* C5 (output echo): the output of an Ok result carries the input's
\* state_root, withdraw_amount and nullifier_address.
C5_OutputEcho ==
    Succeeded =>
        /\ result.output.state_root = input.state_root
        /\ result.output.withdraw_amount = input.withdraw_amount
        /\ result.output.nullifier_address = input.nullifier_address

\* An output is returned for an input with a non-zero cumulative amount.
C5_Witness ==
    /\ Succeeded
    /\ input.cumulative_withdrawn_amount > 0
    /\ result.output.withdraw_amount = 1
    /\ result.output.state_root # <<>>

\* C6 (nullifier determinism): the output's current_nullifier is
\* SHA256(0x01 || secret || LE32(withdrawal_index)) for the input's own
\* index, and for an index above 0 it is not the previous nullifier.
C6_NullifierDeterminism ==
    Succeeded =>
        /\ result.output.current_nullifier =
               Sha256(<<1>> \o input.secret
                      \o <<input.withdrawal_index % 256,
                           input.withdrawal_index \div 256>>)
        /\ input.withdrawal_index > 0 =>
               result.output.current_nullifier #
                   nullifier(input.secret, input.withdrawal_index - 1)

\* The nullifier of index 1 is returned.
C6_Witness ==
    /\ Succeeded
    /\ input.withdrawal_index = 1
    /\ result.output.current_nullifier = nullifier(input.secret, 1)

\* C7 (hash commitment): the output's cumulative_withdrawn_amount_hashed is
\* Keccak256(BE32(cumulative_withdrawn_amount)) of the input's amount, for
\* index 0 as for the later ones.
C7_HashCommitment ==
    Succeeded =>
        result.output.cumulative_withdrawn_amount_hashed =
            Keccak256(<<input.cumulative_withdrawn_amount \div 256,
                        input.cumulative_withdrawn_amount % 256>>)

\* A first withdrawal returns the hash of the amount 0.
C7_Witness ==
    /\ Succeeded
    /\ input.withdrawal_index = 0
    /\ result.output.cumulative_withdrawn_amount_hashed =
           Keccak256(<<0, 0>>)

\* C8: an input whose secret fails the proof-of-work check ends in
\* Err(InvalidSecret), whatever its other fields are.
C8_InvalidSecret ==
    (Finished /\ ~is_valid_wormhole_secret(input.secret)) =>
        result = Err("InvalidSecret", "")

\* The input of tests::invalid_secret: zero amounts, no proofs.
C8_Witness ==
    /\ Finished
    /\ ~is_valid_wormhole_secret(input.secret)
    /\ input.withdraw_amount = 0
    /\ input.deposit_amount = 0
    /\ input.deposit_account_proof = <<>>
    /\ input.nullifier_account_proof = <<>>
    /\ result.error = "InvalidSecret"

\* C9: an input with a valid secret and withdraw_amount = 0 ends in
\* Err(InvalidWithdrawAmount), whatever the other amounts, the index and
\* the proofs are.
C9_ZeroWithdrawAmount ==
    (Finished /\ is_valid_wormhole_secret(input.secret)
              /\ input.withdraw_amount = 0) =>
        result = Err("InvalidWithdrawAmount", "")

\* A zero withdrawal from a proved deposit, within the deposit, is rejected.
C9_Witness ==
    /\ Finished
    /\ is_valid_wormhole_secret(input.secret)
    /\ input.withdraw_amount = 0
    /\ input.cumulative_withdrawn_amount = 0
    /\ input.withdrawal_index = 0
    /\ input.deposit_amount = 3
    /\ Len(input.deposit_account_proof) = 3
    /\ result.error = "InvalidWithdrawAmount"

\* C10: an input with a valid secret and withdraw_amount > 0 whose sum
\* withdraw_amount + cumulative_withdrawn_amount exceeds U256::MAX ends in
\* Err(InvalidWithdrawAmount): the sum is not reduced modulo 2^256.
C10_OverflowRejected ==
    (Finished /\ is_valid_wormhole_secret(input.secret)
              /\ input.withdraw_amount > 0
              /\ input.withdraw_amount + input.cumulative_withdrawn_amount
                     > UMax) =>
        result = Err("InvalidWithdrawAmount", "")

\* tests::invalid_withdraw_amount: cumulative U256::MAX, withdraw 2,
\* deposit 2; the wrapped sum 1 is within the deposit.
C10_Witness ==
    /\ Finished
    /\ is_valid_wormhole_secret(input.secret)
    /\ input.cumulative_withdrawn_amount = UMax
    /\ input.withdraw_amount = 2
    /\ input.deposit_amount = 2
    /\ result.error = "InvalidWithdrawAmount"

\* C11: an input with a valid secret, withdraw_amount > 0 and a sum
\* withdraw_amount + cumulative_withdrawn_amount that does not overflow and
\* exceeds deposit_amount (a deposit of 0 included) ends in
\* Err(InvalidWithdrawAmount).
C11_ExceedsDeposit ==
    (Finished /\ is_valid_wormhole_secret(input.secret)
              /\ input.withdraw_amount > 0
              /\ input.withdraw_amount + input.cumulative_withdrawn_amount
                     <= UMax
              /\ input.withdraw_amount + input.cumulative_withdrawn_amount
                     > input.deposit_amount) =>
        result = Err("InvalidWithdrawAmount", "")

\* A withdrawal that alone fits the deposit is rejected because of what was
\* withdrawn before; the proofs of the input are sound.
C11_Witness ==
    /\ Finished
    /\ is_valid_wormhole_secret(input.secret)
    /\ input.withdraw_amount > 0
    /\ input.withdraw_amount <= input.deposit_amount
    /\ input.withdraw_amount + input.cumulative_withdrawn_amount <= UMax
    /\ input.withdraw_amount + input.cumulative_withdrawn_amount
           > input.deposit_amount
    /\ VerifyDepositProof(input) = "Ok"
    /\ result = Err("InvalidWithdrawAmount", "")

\* C12: an input with a valid secret and valid amounts, withdrawal_index = 0
\* and either a nonzero cumulative_withdrawn_amount or a non-empty
\* previous_nullifier_storage_proof ends in the returned error
\* InconsistentFirstWithdrawal.
C12_InconsistentFirstWithdrawal ==
    (Finished /\ is_valid_wormhole_secret(input.secret)
              /\ input.withdraw_amount > 0
              /\ input.withdraw_amount + input.cumulative_withdrawn_amount
                     <= UMax
              /\ input.withdraw_amount + input.cumulative_withdrawn_amount
                     <= input.deposit_amount
              /\ input.withdrawal_index = 0
              /\ \/ input.cumulative_withdrawn_amount # 0
                 \/ input.previous_nullifier_storage_proof # <<>>) =>
        result = Err("InconsistentFirstWithdrawal", "")

\* The checks that precede the nullifier account proof pass: the secret is
\* valid, the amounts are in range, a first withdrawal has the first
\* withdrawal's shape, and the deposit account proof binds the burn address
\* to the deposit.
PassesDepositChecks ==
    /\ is_valid_wormhole_secret(input.secret)
    /\ input.withdraw_amount > 0
    /\ input.withdraw_amount + input.cumulative_withdrawn_amount <= UMax
    /\ input.withdraw_amount + input.cumulative_withdrawn_amount
           <= input.deposit_amount
    /\ input.withdrawal_index = 0 =>
           /\ input.cumulative_withdrawn_amount = 0
           /\ input.previous_nullifier_storage_proof = <<>>
    /\ Inclusion(input.state_root,
                 Unpack(Keccak256(burn_address(input.secret))),
                 RlpAccount(DefaultAccountWith(input.deposit_amount)),
                 input.deposit_account_proof)

\* C13: an input that passes the secret, amount, first-withdrawal and
\* deposit-proof checks and whose nullifier_account_proof ends in a branch
\* or an extension node ends in Err(NullifierAccountMissing).
C13_NullifierAccountMissing ==
    (Finished /\ PassesDepositChecks
              /\ input.nullifier_account_proof # <<>>
              /\ input.nullifier_account_proof[
                     Len(input.nullifier_account_proof)].kind
                     \in {"branch", "extension"}) =>
        result = Err("NullifierAccountMissing", "")

\* The proof of the nullifier account stops at the branch above its leaf.
C13_Witness ==
    /\ Finished
    /\ PassesDepositChecks
    /\ Len(input.nullifier_account_proof) > 1
    /\ input.nullifier_account_proof[
           Len(input.nullifier_account_proof)].kind = "branch"
    /\ NodeRef(input.nullifier_account_proof[1]) = input.state_root
    /\ result = Err("NullifierAccountMissing", "")

\* The proof of the nullifier account ends in an extension node.
C13_ExtensionReached ==
    /\ Finished
    /\ PassesDepositChecks
    /\ input.nullifier_account_proof # <<>>
    /\ input.nullifier_account_proof[
           Len(input.nullifier_account_proof)].kind = "extension"
    /\ result = Err("NullifierAccountMissing", "")

\* C14: an input that passes the secret, amount, first-withdrawal and
\* deposit-proof checks and whose nullifier_account_proof is empty ends in
\* the returned error Proof(ProofIncomplete); the call does not abort.
C14_EmptyNullifierAccountProof ==
    (Finished /\ PassesDepositChecks
              /\ input.nullifier_account_proof = <<>>) =>
        result = Err("Proof", "ProofIncomplete")

\* The input is an accepted input with one byte changed.
Tampered == input # original

\* The changed byte is in the last node of nullifier_account_proof.
TamperedNullifierLeaf ==
    /\ input.nullifier_account_proof # original.nullifier_account_proof
    /\ Front(input.nullifier_account_proof)
           = Front(original.nullifier_account_proof)

\* The changed byte is the last byte of the leaf of deposit_account_proof.
TamperedDepositLeafEnd ==
    LET p == original.deposit_account_proof
        n == p[Len(p)]
    IN  input.deposit_account_proof =
            [p EXCEPT ![Len(p)] =
                Leaf(n.key, Bump(n.value, Len(n.value), 256))]

\* C15 as stated: an accepted input with one byte of a proof node or of
\* state_root changed ends in an error of kind Proof (NodeHashMismatch when
\* the byte is the last one of the deposit leaf), never in Ok and never in
\* another error kind.
C15_TamperRejection ==
    (Finished /\ Tampered) =>
        /\ result.kind = "Err"
        /\ result.error = "Proof"
        /\ TamperedDepositLeafEnd => result.detail = "NodeHashMismatch"

\* C15, amended: an accepted input with one byte of a proof node or of
\* state_root changed never ends in Ok.  It ends in an error of kind Proof
\* (NodeHashMismatch when the byte is the last one of the deposit leaf),
\* except when the byte is in the last node of nullifier_account_proof,
\* which is decoded before the proof is verified: the error is then Proof,
\* Rlp or NullifierAccountMissing.
C15_TamperRejectionAmended ==
    (Finished /\ Tampered) =>
        /\ result.kind = "Err"
        /\ result.error \in
               (IF TamperedNullifierLeaf
                THEN {"Proof", "Rlp", "NullifierAccountMissing"}
                ELSE {"Proof"})
        /\ TamperedDepositLeafEnd =>
               result = Err("Proof", "NodeHashMismatch")

\* The last byte of the deposit leaf of an accepted input was changed.
C15_Witness ==
    /\ Finished
    /\ Tampered
    /\ TamperedDepositLeafEnd
    /\ result = Err("Proof", "NodeHashMismatch")

\* Scenario S3, with its amounts scaled to the range of the model (a
\* balance of 3 for 5, a withdrawal of 2 for 3): the first withdrawal of a
\* part of the deposit.
S3Amounts ==
    /\ is_valid_wormhole_secret(input.secret)
    /\ input.deposit_amount = 3
    /\ input.withdraw_amount = 2
    /\ input.cumulative_withdrawn_amount = 0
    /\ input.withdrawal_index = 0
    /\ input.previous_nullifier_storage_proof = <<>>

\* The leaf of the burn account in a trie where it is the only account.
S3BurnLeaf ==
    Leaf(Unpack(Keccak256(burn_address(input.secret))),
         RlpAccount(DefaultAccountWith(input.deposit_amount)))

\* The state trie holds exactly the burn account, and the registry is
\* another account.
S3SingleAccountTrie ==
    /\ input.state_root = NodeRef(S3BurnLeaf)
    /\ input.deposit_account_proof = <<S3BurnLeaf>>
    /\ input.nullifier_address # burn_address(input.secret)

\* The state trie holds the burn account and the registry account, and the
\* proofs are the paths to their leaves.
S3WithRegistry ==
    /\ Inclusion(input.state_root,
                 Unpack(Keccak256(burn_address(input.secret))),
                 RlpAccount(DefaultAccountWith(input.deposit_amount)),
                 input.deposit_account_proof)
    /\ input.nullifier_account_proof # <<>>
    /\ Inclusion(input.state_root,
                 Unpack(Keccak256(input.nullifier_address)),
                 input.nullifier_account_proof[
                     Len(input.nullifier_account_proof)].value,
                 input.nullifier_account_proof)
    /\ DecodeAccount(input.nullifier_account_proof[
                         Len(input.nullifier_account_proof)].value).ok

\* C16 as stated (scenario S3): on a state trie that holds exactly the burn
\* account, the first withdrawal of a part of the deposit, with no previous
\* nullifier proof, ends in Ok with current_nullifier = nullifier(secret, 0).
C16_FirstWithdrawalSingleAccount ==
    (Finished /\ S3Amounts /\ S3SingleAccountTrie) =>
        /\ result.kind = "Ok"
        /\ result.output.current_nullifier = nullifier(input.secret, 0)

\* C16, amended: the first withdrawal of a part of the deposit ends in Ok
\* with current_nullifier = nullifier(secret, 0) when the state trie holds
\* the registry account beside the burn account; on a state trie that
\* holds exactly the burn account, the registry being another account, it
\* never ends in Ok.
C16_FirstWithdrawalWithRegistry ==
    /\ (Finished /\ S3Amounts /\ S3WithRegistry) =>
           /\ result.kind = "Ok"
           /\ result.output.current_nullifier = nullifier(input.secret, 0)
    /\ (Finished /\ S3Amounts /\ S3SingleAccountTrie) =>
           result.kind # "Ok"

\* The first withdrawal of scenario S3 succeeds on a trie with both accounts.
C16_Witness ==
    /\ Succeeded
    /\ S3Amounts
    /\ S3WithRegistry
    /\ result.output.current_nullifier = nullifier(input.secret, 0)

\* The first withdrawal of scenario S3 on the trie of the burn account alone,
\* with the only node of that trie as the proof of the registry account.
C16_SingleAccountReached ==
    /\ Finished
    /\ S3Amounts
    /\ S3SingleAccountTrie
    /\ input.nullifier_account_proof = <<S3BurnLeaf>>
    /\ result = Err("Proof", "PathMismatch")

\* The trie of the burn account alone is accepted when the registry address
\* is the burn address.
C16_BurnAsRegistryReached ==
    /\ Succeeded
    /\ S3Amounts
    /\ input.state_root = NodeRef(S3BurnLeaf)
    /\ input.nullifier_address = burn_address(input.secret)

\* The last node of nullifier_account_proof is the leaf of the account at
\* nullifier_address in the state trie, and it holds an account.
RegistryIncluded ==
    /\ input.nullifier_account_proof # <<>>
    /\ LET leaf == input.nullifier_account_proof[
                       Len(input.nullifier_account_proof)]
       IN  /\ Inclusion(input.state_root,
                        Unpack(Keccak256(input.nullifier_address)),
                        leaf.value, input.nullifier_account_proof)
           /\ DecodeAccount(leaf.value).ok

\* previous_nullifier_storage_proof binds, in the storage trie of that
\* account, the nullifier of the previous index to the hash of
\* cumulative_withdrawn_amount.
PreviousNullifierIncluded ==
    LET leaf == input.nullifier_account_proof[
                    Len(input.nullifier_account_proof)]
    IN  Inclusion(DecodeAccount(leaf.value).account.storage_root,
                  Unpack(Keccak256(nullifier(input.secret,
                                             input.withdrawal_index - 1))),
                  RlpEncodeFixedSize(Keccak256(
                      ToBeBytes(input.cumulative_withdrawn_amount))),
                  input.previous_nullifier_storage_proof)

\* C17 (completeness): an input with a valid secret, withdraw_amount > 0,
\* withdraw_amount + cumulative_withdrawn_amount <= deposit_amount (equality
\* included), withdrawal_index > 0 and three proofs that bind the deposit
\* account, the registry account and the previous nullifier ends in Ok.
C17_Completeness ==
    (Finished /\ is_valid_wormhole_secret(input.secret)
              /\ input.withdraw_amount > 0
              /\ input.withdraw_amount + input.cumulative_withdrawn_amount
                     <= input.deposit_amount
              /\ input.withdrawal_index > 0
              /\ Inclusion(input.state_root,
                           Unpack(Keccak256(burn_address(input.secret))),
                           RlpAccount(DefaultAccountWith(input.deposit_amount)),
                           input.deposit_account_proof)
              /\ RegistryIncluded
              /\ PreviousNullifierIncluded) =>
        result.kind = "Ok"

\* A later withdrawal that uses up the deposit succeeds.
C17_Witness ==
    /\ Succeeded
    /\ input.withdrawal_index > 0
    /\ input.withdraw_amount + input.cumulative_withdrawn_amount
           = input.deposit_amount
    /\ RegistryIncluded
    /\ PreviousNullifierIncluded

(***************************************************************************)
(* The executor of crates/program (wormhole_program), which the risc0 and  *)
(* pico guests call: the same checks, the amount check after the index     *)
(* check, every failure a panic, and the registry address a constant.      *)
(***************************************************************************)
\* crates/program/src/lib.rs 4, 45: the address of the nullifier contract.
WORMHOLE_NULLIFIER_ADDRESS == RegistryAddress

\* crates/program/src/lib.rs 20-27: the panic message of the amount check,
\* "" if it passes.
LegacyAmountPanic(i) ==
    LET sum == CheckedAdd(i.withdraw_amount, i.cumulative_withdrawn_amount)
    IN  IF sum = <<>>
        THEN "called Option::unwrap() on a None value (checked_add)"
        ELSE IF sum[1] < i.deposit_amount
        THEN "withdraw amounts exceed the original deposit amount"
        ELSE ""

\* crates/program/src/lib.rs 44-63: the nullifier account proof.
LegacyNullifierAccount(i) ==
    LET r == VerifyNullifierAccountProof(
                 [i EXCEPT !.nullifier_address = WORMHOLE_NULLIFIER_ADDRESS])
        proof == i.nullifier_account_proof
    IN  [result |->
            IF r.result.kind \in {"none", "Panic"} THEN r.result
            ELSE IF r.result.error = "NullifierAccountMissing"
            THEN Panic("nullifier account must be present")
            ELSE IF r.result.error = "Proof"
            THEN Panic("nullifier account proof validation failed")
            ELSE IF proof[Len(proof)].kind = "bad"
            THEN Panic("nullifier trie node decoding failed")
            ELSE Panic("nullifier trie account decoding failed"),
         account |-> r.account]

\* crates/program/src/lib.rs 86-92
LegacyOutput(i) ==
    [nullifier_address |-> <<>>,
     state_root |-> i.state_root,
     withdraw_amount |-> i.withdraw_amount,
     current_nullifier |-> CurrentNullifier(i),
     cumulative_withdrawn_amount_hashed |->
         CumulativeWithdrawnAmountHashed(i)]

\* crates/program/src/lib.rs 6-93: the result of the whole call on i.
LegacyExecute(i) ==
    IF ~SecretIsValid(i) THEN Panic("Secret must be valid")
    ELSE IF FirstWithdrawalPanic(i) # "" THEN Panic(FirstWithdrawalPanic(i))
    ELSE IF LegacyAmountPanic(i) # "" THEN Panic(LegacyAmountPanic(i))
    ELSE IF VerifyDepositProof(i) # "Ok"
    THEN Panic("deposit account proof validation failed")
    ELSE
      LET r == LegacyNullifierAccount(i)
          v == VerifyPreviousNullifierProof(i, r.account)
      IN  IF r.result.kind # "none" THEN r.result
          ELSE IF v # "Ok"
          THEN Panic("previous nullifier inclusion storage proof validation failed")
          ELSE Ok(LegacyOutput(i))

(***************************************************************************)
(* The standalone guest (program/src/main.rs): the checks of crates/program *)
(* with an unchecked sum in the amount check, the previous nullifier bound  *)
(* to the amount itself, and an exclusion proof of the current nullifier.   *)
(***************************************************************************)
\* program/src/main.rs 28-30: the panic message of the amount check, "" if
\* it passes.  An overflowing `+` panics or wraps, as the build decides.
StandaloneAmountPanic(i, overflow_panics) ==
    LET sum == i.withdraw_amount + i.cumulative_withdrawn_amount
    IN  IF sum > UMax /\ overflow_panics
        THEN "attempt to add with overflow"
        ELSE IF sum % (UMax + 1) > i.deposit_amount
        THEN "withdraw amounts exceed the original deposit amount"
        ELSE ""

\* program/src/main.rs 69-82: the previous nullifier's storage proof.
StandalonePreviousNullifierProof(i, account) ==
    IF i.withdrawal_index = 0 THEN "Ok"
    ELSE
      LET previous_nullifier ==
              nullifier(i.secret, PreviousWithdrawalIndex(i)[1])
          previous_nullifier_nibbles == Unpack(Keccak256(previous_nullifier))
          expected == RlpUint(i.cumulative_withdrawn_amount)
      IN  VerifyProof(account.storage_root, previous_nullifier_nibbles,
                      <<expected>>, i.previous_nullifier_storage_proof)

\* program/src/main.rs 84-93: the current nullifier's exclusion proof.
StandaloneExclusionProof(i, account, nullifier_storage_proof) ==
    VerifyProof(account.storage_root,
                Unpack(Keccak256(CurrentNullifier(i))), <<>>,
                nullifier_storage_proof)

\* program/src/main.rs 11-99: the result of the whole run on i.
StandaloneExecute(i, nullifier_storage_proof, overflow_panics) ==
    IF ~SecretIsValid(i) THEN Panic("Secret must be valid")
    ELSE IF FirstWithdrawalPanic(i) # "" THEN Panic(FirstWithdrawalPanic(i))
    ELSE IF StandaloneAmountPanic(i, overflow_panics) # ""
    THEN Panic(StandaloneAmountPanic(i, overflow_panics))
    ELSE IF VerifyDepositProof(i) # "Ok"
    THEN Panic("deposit account proof validation failed")
    ELSE
      LET r == LegacyNullifierAccount(i)
      IN  IF r.result.kind # "none" THEN r.result
          ELSE IF StandalonePreviousNullifierProof(i, r.account) # "Ok"
          THEN Panic("previous nullifier inclusion storage proof validation failed")
          ELSE IF StandaloneExclusionProof(i, r.account,
                                           nullifier_storage_proof) # "Ok"
          THEN Panic("nullifier exclusion storage proof validation failed")
          ELSE Ok([nullifier_address |-> <<>>,
                   state_root |-> i.state_root,
                   withdraw_amount |-> i.withdraw_amount,
                   current_nullifier |-> CurrentNullifier(i),
                   cumulative_withdrawn_amount_hashed |-> <<>>])

(***************************************************************************)
(* The guest programs: read the input, execute, commit the value that the  *)
(* executor returned.  A panic ends the session before the commit.         *)
(***************************************************************************)
\* The inputs a guest is run on: those a host built, with or without the
\* proof of the registry account, and the default input.
IsGuestInput(i) ==
    \E sc \in Scalars, w \in Worlds :
        \E env \in {HonestEnv(w, sc.withdrawal_index), DefaultEnv,
                    [HonestEnv(w, sc.withdrawal_index)
                        EXCEPT !.nullifier_account_proof = <<>>]} :
            i = ProgramInput(sc, env)

Guests == {"sp1", "risc0", "pico"}

GuestInit ==
    /\ program \in Guests \cup {"standalone"}
    /\ IsGuestInput(input)
    /\ original = input
    /\ pc = "read"
    /\ nullifier_account = DefaultAccountWith(0)
    /\ cumulative_withdrawn_amount_hashed = <<>>
    /\ result = NoResult
    /\ journal = <<>>
    /\ previous_withdrawal_index = <<>>
    /\ SecretIdle

\* The executor returned r to the guest: it did not panic.
Returned(r) == r.kind # "Panic"

\* A value of the given type written to the journal.
Committed(type, r) == [type |-> type, value |-> r]

\* programs/sp1/src/main.rs 11-14: the executor of crates/program-core.
Sp1Execute ==
    /\ program = "sp1"
    /\ pc = "read"
    /\ result' = Execute(input)
    /\ pc' = IF Returned(result') THEN "commit" ELSE "done"
    /\ UNCHANGED <<input, original, nullifier_account,
                   cumulative_withdrawn_amount_hashed, program, journal,
                   previous_withdrawal_index, secret_vars>>

\* programs/sp1/src/main.rs 17: commits the Result it got.
Sp1Commit ==
    /\ program = "sp1"
    /\ pc = "commit"
    /\ journal' = Append(journal, Committed("Result", result))
    /\ pc' = "done"
    /\ UNCHANGED <<input, original, nullifier_account,
                   cumulative_withdrawn_amount_hashed, program, result,
                   previous_withdrawal_index, secret_vars>>

\* programs/risc0/src/main.rs 12-15: the executor of crates/program.
Risc0Execute ==
    /\ program = "risc0"
    /\ pc = "read"
    /\ result' = LegacyExecute(input)
    /\ pc' = IF Returned(result') THEN "commit" ELSE "done"
    /\ UNCHANGED <<input, original, nullifier_account,
                   cumulative_withdrawn_amount_hashed, program, journal,
                   previous_withdrawal_index, secret_vars>>

\* programs/risc0/src/main.rs 18
Risc0Commit ==
    /\ program = "risc0"
    /\ pc = "commit"
    /\ journal' = Append(journal, Committed("WormholeProgramOutput", result))
    /\ pc' = "done"
    /\ UNCHANGED <<input, original, nullifier_account,
                   cumulative_withdrawn_amount_hashed, program, result,
                   previous_withdrawal_index, secret_vars>>

\* programs/pico/src/main.rs 11-14: the executor of crates/program.
PicoExecute ==
    /\ program = "pico"
    /\ pc = "read"
    /\ result' = LegacyExecute(input)
    /\ pc' = IF Returned(result') THEN "commit" ELSE "done"
    /\ UNCHANGED <<input, original, nullifier_account,
                   cumulative_withdrawn_amount_hashed, program, journal,
                   previous_withdrawal_index, secret_vars>>

\* programs/pico/src/main.rs 17
PicoCommit ==
    /\ program = "pico"
    /\ pc = "commit"
    /\ journal' = Append(journal, Committed("WormholeProgramOutput", result))
    /\ pc' = "done"
    /\ UNCHANGED <<input, original, nullifier_account,
                   cumulative_withdrawn_amount_hashed, program, result,
                   previous_withdrawal_index, secret_vars>>

\* program/src/main.rs 11-99: the whole run; the three public values are
\* committed after the last check.
StandaloneMain ==
    /\ program = "standalone"
    /\ pc = "read"
    /\ \E nullifier_storage_proof \in
              {<<>>} \cup {StorageProof(w) : w \in Worlds},
          overflow_panics \in BOOLEAN :
          result' = StandaloneExecute(input, nullifier_storage_proof,
                                      overflow_panics)
    /\ journal' = IF Returned(result')
                  THEN <<Committed("PublicValues", result')>>
                  ELSE journal
    /\ pc' = "done"
    /\ UNCHANGED <<input, original, nullifier_account,
                   cumulative_withdrawn_amount_hashed, program,
                   previous_withdrawal_index, secret_vars>>

GuestNext ==
    \/ Sp1Execute
    \/ Sp1Commit
    \/ Risc0Execute
    \/ Risc0Commit
    \/ PicoExecute
    \/ PicoCommit
    \/ StandaloneMain

GuestSpec == GuestInit /\ [][GuestNext]_vars

\* The call as a whole and the call check by check agree.
StepwiseAgrees == Finished => result = Execute(input)

\* C18: in every guest program the commit is reached only when the executor
\* succeeded; on an error nothing is written to the journal and the session
\* aborts.
C18_CommitOnlyOnSuccess ==
    program \in Guests =>
        /\ (pc = "commit" \/ journal # <<>>) => result.kind = "Ok"
        /\ (Finished /\ result.kind # "Ok") =>
               /\ journal = <<>>
               /\ result.kind = "Panic"

\* The panics of the amount checks of crates/program and program/src/main.rs.
AmountPanics ==
    {"withdraw amounts exceed the original deposit amount",
     "called Option::unwrap() on a None value (checked_add)",
     "attempt to add with overflow"}

\* The run reached the amount check: the secret is valid and a first
\* withdrawal has the first withdrawal's shape.
ReachesLegacyAmountCheck ==
    /\ program \in {"risc0", "pico", "standalone"}
    /\ is_valid_wormhole_secret(input.secret)
    /\ input.withdrawal_index = 0 =>
           /\ input.cumulative_withdrawn_amount = 0
           /\ input.previous_nullifier_storage_proof = <<>>

\* C19: the executor of crates/program (run by the risc0 and pico guests)
\* and program/src/main.rs enforce the amount invariant of the core
\* executor: with checked addition, they reject
\* withdraw_amount + cumulative_withdrawn_amount > deposit_amount and do not
\* reject withdraw_amount + cumulative_withdrawn_amount <= deposit_amount.
C19_SameAmountInvariant ==
    (Finished /\ ReachesLegacyAmountCheck) =>
        LET sum == input.withdraw_amount + input.cumulative_withdrawn_amount
            rejected == result.kind = "Panic" /\ result.detail \in AmountPanics
        IN  rejected <=> sum > input.deposit_amount

\* C19 for crates/program alone.
C19_CratesProgram == program = "standalone" \/ C19_SameAmountInvariant

\* C19 for program/src/main.rs alone.
C19_Standalone == program # "standalone" \/ C19_SameAmountInvariant

\* C20: the checks run in the order secret, amount, first-withdrawal shape,
\* deposit proof, nullifier account proof, previous nullifier proof, and
\* the result is the failure of the first check that fails: InvalidSecret
\* whatever else is wrong, InvalidWithdrawAmount (never Proof or Rlp) for a
\* valid secret with out-of-range amounts whatever the proofs are, and so
\* on; Ok when no check fails.
C20_CheckOrder ==
    Finished =>
        IF ~is_valid_wormhole_secret(input.secret)
        THEN result = Err("InvalidSecret", "")
        ELSE IF \/ input.withdraw_amount = 0
                \/ input.withdraw_amount + input.cumulative_withdrawn_amount
                       > UMax
                \/ input.withdraw_amount + input.cumulative_withdrawn_amount
                       > input.deposit_amount
        THEN result = Err("InvalidWithdrawAmount", "")
        ELSE IF /\ input.withdrawal_index = 0
                /\ \/ input.cumulative_withdrawn_amount # 0
                   \/ input.previous_nullifier_storage_proof # <<>>
        THEN result.kind = "Panic"
        ELSE IF ~Inclusion(input.state_root,
                           Unpack(Keccak256(burn_address(input.secret))),
                           RlpAccount(DefaultAccountWith(input.deposit_amount)),
                           input.deposit_account_proof)
        THEN result.kind = "Err" /\ result.error = "Proof"
        ELSE IF ~RegistryIncluded
        THEN \/ result.kind = "Panic"
             \/ /\ result.kind = "Err"
                /\ result.error \in {"Rlp", "NullifierAccountMissing", "Proof"}
        ELSE IF input.withdrawal_index > 0 /\ ~PreviousNullifierIncluded
        THEN result.kind = "Err" /\ result.error = "Proof"
        ELSE result.kind = "Ok"

\* A valid secret with a withdrawal above the deposit and no proofs at all.
C20_Witness ==
    /\ Finished
    /\ is_valid_wormhole_secret(input.secret)
    /\ input.withdraw_amount > 0
    /\ input.withdraw_amount + input.cumulative_withdrawn_amount
           > input.deposit_amount
    /\ input.deposit_account_proof = <<>>
    /\ input.nullifier_account_proof = <<>>
    /\ result = Err("InvalidWithdrawAmount", "")

\* An invalid secret with a withdrawal of zero.
C20_InvalidSecretFirstReached ==
    /\ Finished
    /\ ~is_valid_wormhole_secret(input.secret)
    /\ input.withdraw_amount = 0
    /\ result = Err("InvalidSecret", "")


(***************************************************************************)
(* The functions of WormholeSecret on their own                            *)
(* (crates/alloy-wormhole/src/secret.rs).  No executor, guest or command   *)
(* runs in these specifications.                                           *)
(***************************************************************************)
ExecIdle ==
    /\ input = <<>>
    /\ original = <<>>
    /\ pc = "idle"
    /\ nullifier_account = DefaultAccountWith(0)
    /\ cumulative_withdrawn_amount_hashed = <<>>
    /\ result = NoResult
    /\ program = "none"
    /\ journal = <<>>
    /\ previous_withdrawal_index = <<>>

\* The values the bytes of the hashes take: both ends of the range, and the
\* least and the most significant bit alone.
HashBytes == {0, 1, 128, 255}

\* 32-byte hash values (B256): 28 equal leading bytes, then any four.
PowHashes ==
    {[k \in 1..28 |-> b] \o <<b1, b2, b3, b4>> :
        b \in {0, 255}, b1 \in HashBytes, b2 \in HashBytes,
        b3 \in HashBytes, b4 \in HashBytes}

PowInit ==
    /\ ExecIdle
    /\ pow_hash \in PowHashes
    /\ pow_valid = <<>>
    /\ secret_bytes = <<>>
    /\ draws = 0
    /\ mined = "none"
    /\ pair = <<>>
    /\ preimages = <<>>

\* secret.rs 94-97: the test of is_valid_wormhole_secret on the hash.
TestPowHash ==
    /\ pow_valid = <<>>
    /\ pow_valid' = <<PowHashIsZeroRem(pow_hash)>>
    /\ UNCHANGED <<exec_vars, pow_hash, secret_bytes, draws, mined, pair,
                   preimages>>

PowNext == TestPowHash

PowSpec == PowInit /\ [][PowNext]_vars

\* The last three bytes of the hash are zero.
LastThreeBytesZero(h) ==
    \A k \in (Len(h) - 2)..Len(h) : h[k] = 0

\* C21: for every 32-byte hash the proof-of-work test (the hash as a
\* big-endian integer modulo POW_DIFFICULTY_U256 is zero) holds exactly when
\* the last three bytes of the hash are zero, and POW_DIFFICULTY_U256 is
\* 2^POW_LOG_DIFFICULTY = 2^24.
C21_PowPredicate ==
    /\ pow_hash \in Seq(0..255) /\ Len(pow_hash) = 32
    /\ pow_valid # <<>> =>
           (pow_valid[1] <=> LastThreeBytesZero(pow_hash))
    /\ POW_DIFFICULTY_U256 = 2 ^ POW_LOG_DIFFICULTY
    /\ POW_LOG_DIFFICULTY = 24

\* A hash whose leading bytes are not zero passed the test.
C21_Witness ==
    /\ pow_valid = <<TRUE>>
    /\ pow_hash[1] = 255
    /\ LastThreeBytesZero(pow_hash)

\* A hash with a non-zero byte only among the last three was rejected.
C21_RejectedReached ==
    /\ pow_valid = <<FALSE>>
    /\ pow_hash[1] = 0
    /\ pow_hash[32] = 1


(***************************************************************************)
(* WormholeSecret::try_random (secret.rs 49-57).  mined is the position in *)
(* the loop: "none" before getrandom, "drawn" after it, "Ok" and "Err"     *)
(* once the function returned.  draws counts the calls of getrandom, up to *)
(* MaxDraws.                                                               *)
(***************************************************************************)
\* getrandom::getrandom(&mut bytes): 32 bytes, the last two of them drawn.
RandomBytes ==
    {[k \in 1..30 |-> 0] \o <<a, b>> : a \in 0..8, b \in 0..8}

\* secret.rs 53: is_valid_wormhole_secret(&bytes), for each value of the
\* buffer that getrandom gives.
DrawnIsValid == [b \in RandomBytes |-> is_valid_wormhole_secret(b)]

\* secret.rs 50: BytesMut::zeroed(32).
MineInit ==
    /\ ExecIdle
    /\ secret_bytes = [k \in 1..32 |-> 0]
    /\ draws = 0
    /\ mined = "none"
    /\ pow_hash = <<>>
    /\ pow_valid = <<>>
    /\ pair = <<>>
    /\ preimages = <<>>

\* secret.rs 52: getrandom fills the buffer.
Draw ==
    /\ mined = "none"
    /\ secret_bytes' \in RandomBytes
    /\ draws' = IF draws < MaxDraws THEN draws + 1 ELSE draws
    /\ mined' = "drawn"
    /\ UNCHANGED <<exec_vars, pow_hash, pow_valid, pair, preimages>>

\* secret.rs 52: getrandom fails and `?` returns its error.
DrawFails ==
    /\ mined = "none"
    /\ mined' = "Err"
    /\ UNCHANGED <<exec_vars, pow_hash, pow_valid, secret_bytes, draws, pair,
                   preimages>>

\* TestDrawn returning the drawn bytes without the proof-of-work check.
TestDrawn_Unchecked ==
    /\ mined = "drawn"
    /\ mined' = "Ok"
    /\ UNCHANGED <<exec_vars, pow_hash, pow_valid, secret_bytes, draws, pair,
                   preimages>>

\* secret.rs 53-55: returns the bytes if they pass the check, loops if not.
TestDrawn ==
    /\ mined = "drawn"
    /\ mined' = IF DrawnIsValid[secret_bytes] THEN "Ok" ELSE "none"
    /\ UNCHANGED <<exec_vars, pow_hash, pow_valid, secret_bytes, draws, pair,
                   preimages>>

MineNext ==
    \/ Draw
    \/ DrawFails
    \/ TestDrawn

\* The random source gives bytes that pass the check.
ValidDraw == Draw /\ DrawnIsValid[secret_bytes']

\* The loop keeps running, and valid draws occur infinitely often if draws
\* do.
MineSpec ==
    /\ MineInit
    /\ [][MineNext]_vars
    /\ WF_vars(MineNext)
    /\ SF_vars(ValidDraw)

\* try_random returned.
MineReturned == mined \in {"Ok", "Err"}

\* A drawn value that fails the check is followed by a new draw and by
\* nothing else.
C22_Redraws ==
    /\ (mined = "drawn" /\ ~is_valid_wormhole_secret(secret_bytes))
           => (mined' = "none" /\ secret_bytes' = secret_bytes)
    /\ (mined = "none" /\ mined' # "Err")
           => (mined' = "drawn" /\ secret_bytes' \in RandomBytes)

\* try_random returns an error only from the call of getrandom.
C22_ErrFromSource ==
    (mined' = "Err" /\ mined # "Err") => mined = "none"

\* C22: try_random redraws until a drawn value passes the proof-of-work
\* check, so a secret it returns is valid and 32 bytes long; it returns
\* without a secret only with the error of the random source; and with
\* valid draws occurring infinitely often it returns eventually.
C22_Mining ==
    /\ [](mined = "Ok" =>
              /\ is_valid_wormhole_secret(secret_bytes)
              /\ Len(secret_bytes) = 32)
    /\ [][/\ C22_Redraws
          /\ C22_ErrFromSource]_vars
    /\ <>MineReturned

\* try_random returned a secret after drawing more than once.
C22_Witness ==
    /\ mined = "Ok"
    /\ draws >= 2
    /\ is_valid_wormhole_secret(secret_bytes)

\* try_random returned the error of the random source after a rejected
\* draw.
C22_ErrReached ==
    /\ mined = "Err"
    /\ draws >= 1
    /\ ~is_valid_wormhole_secret(secret_bytes)


(***************************************************************************)
(* The create-input command (bin/wormhole/src/create_input.rs).  input is  *)
(* the command line, with rpc_url the chain state (a world) that the node  *)
(* at that URL serves; the WormholeProgramInput the command prints goes to *)
(* the journal.  An optional argument is <<>> when absent.                 *)
(***************************************************************************)
\* Option<U256>: absent, or any 256-bit value.
OptionU256 == {<<>>} \cup {<<n>> : n \in U256}

\* Option::unwrap_or_default.
UnwrapOrDefault(option) == IF option = <<>> THEN 0 ELSE option[1]

\* U256::saturating_add.
SaturatingAdd(a, b) == IF a + b > UMax THEN UMax ELSE a + b

\* CreateInputCommand (create_input.rs 9-33).
CreateInputCommands ==
    [secret : Secrets,
     rpc_url : Worlds,
     nullifier_address : {RegistryAddress, OtherAddress},
     withdraw_amount : U256,
     withdrawal_index : OptionU256,
     cumulative_withdrawn_amount : OptionU256]

\* eth_getProof of the node, for an account: its balance.
ProviderBalance(w, address) ==
    IF address = burn_address(w.secret) THEN w.balance ELSE 0

\* eth_getProof of the node, for an account: the nodes from the root to the
\* account, or the root alone for an account the trie does not hold.
ProviderAccountProof(w, address) ==
    IF address = burn_address(w.secret) THEN DepositProof(w)
    ELSE IF address = w.registry THEN RegistryProof(w)
    ELSE <<DepositProof(w)[1]>>

\* eth_getProof of the node, for a storage key: the nodes of the storage
\* trie on the way to the key, none for an account without storage.
ProviderStorageProof(w, address, key) ==
    IF address = w.registry THEN StorageProof(w) ELSE <<>>

HostInit ==
    /\ input \in CreateInputCommands
    /\ original = input
    /\ pc = "parse"
    /\ nullifier_account = DefaultAccountWith(0)
    /\ cumulative_withdrawn_amount_hashed = <<>>
    /\ result = NoResult
    /\ program = "create-input"
    /\ journal = <<>>
    /\ previous_withdrawal_index = <<>>
    /\ SecretIdle

\* create_input.rs 37-38: WormholeSecret::try_from the bytes given.
HostParseSecret ==
    /\ pc = "parse"
    /\ IF ~is_valid_wormhole_secret(input.secret)
       THEN Return(Err("InvalidSecret", ""))
       ELSE Continue("block")
    /\ UNCHANGED <<input, nullifier_account, cumulative_withdrawn_amount_hashed,
                   previous_withdrawal_index>>

\* create_input.rs 40-46: connects and fetches the latest block.
HostGetBlock ==
    /\ pc = "block"
    /\ Continue("balance")
    /\ UNCHANGED <<input, nullifier_account, cumulative_withdrawn_amount_hashed,
                   previous_withdrawal_index>>

\* create_input.rs 40, 45-46, 52, 71: a request to the node fails.
HostRpcFails ==
    /\ pc \in {"block", "balance", "build"}
    /\ Return(Err("anyhow", "rpc"))
    /\ UNCHANGED <<input, nullifier_account, cumulative_withdrawn_amount_hashed,
                   previous_withdrawal_index>>

\* create_input.rs 48-61: the balance of the burn address covers the
\* withdrawals.
HostCheckAmount ==
    /\ pc = "balance"
    /\ LET balance ==
               ProviderBalance(input.rpc_url, burn_address(input.secret))
           cumulative_withdrawn_amount ==
               UnwrapOrDefault(input.cumulative_withdrawn_amount)
       IN  IF SaturatingAdd(input.withdraw_amount,
                            cumulative_withdrawn_amount) > balance
           THEN Return(Err("InvalidWithdrawAmount", ""))
           ELSE Continue("keys")
    /\ UNCHANGED <<input, nullifier_account, cumulative_withdrawn_amount_hashed,
                   previous_withdrawal_index>>

\* HostPreviousWithdrawalIndex subtracting whatever the index is.
HostPreviousWithdrawalIndex_Unguarded(command) ==
    <<(UnwrapOrDefault(command.withdrawal_index) - 1) % (UMax + 1)>>

\* create_input.rs 64-66: withdrawal_index - U256::from(1), evaluated
\* (<<k>>) when the index is not zero, not evaluated (<<>>) otherwise.
HostPreviousWithdrawalIndex(command) ==
    LET withdrawal_index == UnwrapOrDefault(command.withdrawal_index)
    IN  IF withdrawal_index = 0 THEN <<>>
        ELSE <<(withdrawal_index - 1) % (UMax + 1)>>

\* create_input.rs 63-67: the storage keys to ask the node for.
HostNullifierKeys(command) ==
    IF HostPreviousWithdrawalIndex(command) = <<>> THEN <<>>
    ELSE <<nullifier(command.secret, HostPreviousWithdrawalIndex(command)[1])>>

\* create_input.rs 63-67.
HostPreviousNullifier ==
    /\ pc = "keys"
    /\ previous_withdrawal_index' = HostPreviousWithdrawalIndex(input)
    /\ Continue("build")
    /\ UNCHANGED <<input, nullifier_account, cumulative_withdrawn_amount_hashed>>

\* create_input.rs 83-94: the input printed.
HostProgramInput(command, storage_proof) ==
    LET w == command.rpc_url
    IN  [secret |-> command.secret,
         deposit_amount |-> ProviderBalance(w, burn_address(command.secret)),
         withdraw_amount |-> command.withdraw_amount,
         cumulative_withdrawn_amount |->
             UnwrapOrDefault(command.cumulative_withdrawn_amount),
         withdrawal_index |-> UnwrapOrDefault(command.withdrawal_index),
         state_root |-> StateRoot(w),
         deposit_account_proof |->
             ProviderAccountProof(w, burn_address(command.secret)),
         nullifier_address |-> command.nullifier_address,
         nullifier_account_proof |->
             ProviderAccountProof(w, command.nullifier_address),
         previous_nullifier_storage_proof |->
             IF UnwrapOrDefault(command.withdrawal_index) = 0 THEN <<>>
             ELSE storage_proof[1]]

\* create_input.rs 68-98: asks the node for the proofs of the keys, takes
\* the last of them and prints the input.  The node answers each key, or
\* leaves the storage proofs out.
HostBuildInput ==
    /\ pc = "build"
    /\ \E answered \in BOOLEAN :
         LET keys == HostNullifierKeys(input)
             storage_proof ==
                 IF answered /\ keys # <<>>
                 THEN <<ProviderStorageProof(input.rpc_url,
                                             input.nullifier_address, keys[1])>>
                 ELSE <<>>
         IN  IF UnwrapOrDefault(input.withdrawal_index) # 0
                /\ storage_proof = <<>>
             THEN /\ result' = Err("anyhow", "missing previous nullifier proof")
                  /\ journal' = journal
             ELSE /\ result' = Ok(NoOutput)
                  /\ journal' = <<HostProgramInput(input, storage_proof)>>
    /\ pc' = "done"
    /\ UNCHANGED <<input, original, nullifier_account,
                   cumulative_withdrawn_amount_hashed, program,
                   previous_withdrawal_index, secret_vars>>

HostNext ==
    \/ HostParseSecret
    \/ HostGetBlock
    \/ HostRpcFails
    \/ HostCheckAmount
    \/ HostPreviousNullifier
    \/ HostBuildInput

\* A call of the executor, or a run of the command.
CallOrCommandInit == Init \/ HostInit

CallOrCommandNext == Next \/ HostNext

HostSpec == CallOrCommandInit /\ [][CallOrCommandNext]_vars

\* The withdrawal index of the run: the field of the executor's input, the
\* argument of the command or its default.
RunWithdrawalIndex ==
    IF program = "create-input" THEN UnwrapOrDefault(input.withdrawal_index)
    ELSE input.withdrawal_index

\* C23: withdrawal_index - 1 is evaluated only where withdrawal_index > 0,
\* in the executor and in the create-input command: the previous index is
\* the index less one and never U256::MAX from index 0.
C23_NoWrapAround ==
    /\ previous_withdrawal_index # <<>> =>
           /\ RunWithdrawalIndex > 0
           /\ previous_withdrawal_index[1] = RunWithdrawalIndex - 1
    /\ RunWithdrawalIndex = 0 => previous_withdrawal_index = <<>>

\* The executor accepted an input of index 0, having derived no previous
\* nullifier.
C23_Witness ==
    /\ program = "core"
    /\ Succeeded
    /\ input.withdrawal_index = 0
    /\ previous_withdrawal_index = <<>>

\* The executor accepted an input of a later index.
C23_LaterReached ==
    /\ program = "core"
    /\ Succeeded
    /\ input.withdrawal_index > 0
    /\ previous_withdrawal_index = <<input.withdrawal_index - 1>>

\* The command printed an input for index 0, having derived no previous
\* nullifier.
C23_HostFirstReached ==
    /\ program = "create-input"
    /\ journal # <<>>
    /\ journal[1].withdrawal_index = 0
    /\ previous_withdrawal_index = <<>>

\* The command printed an input for the largest index.
C23_HostLaterReached ==
    /\ program = "create-input"
    /\ journal # <<>>
    /\ journal[1].withdrawal_index = UMax
    /\ previous_withdrawal_index = <<UMax - 1>>


(***************************************************************************)
(* Two calls of execute_wormhole_program compared: the call of the         *)
(* behaviour, on input, and the call on a second input that has other      *)
(* values in the fields the output should not depend on.                   *)
(***************************************************************************)
\* The proofs a second input carries: those of every world, of the
\* single-account tries and of the pool, and their variations.
DepositProofCatalogue ==
    UNION {DepositProofs(w) \cup {SoloProof(w), PoolProof(w.secret)} :
               w \in Worlds}

NullifierProofCatalogue ==
    UNION {NullifierProofs(w) \cup {SoloProof(w), PoolProof(w.secret)} :
               w \in Worlds}

StorageProofCatalogue == UNION {StorageProofs(w) : w \in Worlds}

\* An output without its nullifier.
WithoutNullifier(output) == [output EXCEPT !.current_nullifier = <<>>]

\* C24: two inputs that the executor accepts and that agree on secret,
\* withdrawal_index, withdraw_amount, cumulative_withdrawn_amount,
\* state_root and nullifier_address give equal outputs, whatever their
\* deposit_amount and their three proofs are, and the output built from
\* the second input is that of the first; and two accepted inputs that
\* agree on withdraw_amount, cumulative_withdrawn_amount, state_root and
\* nullifier_address give outputs that differ in current_nullifier at most,
\* whatever their secrets are.
C24_Unlinkability ==
    Succeeded =>
        /\ \A d \in U256, p1 \in DepositProofCatalogue,
              p2 \in NullifierProofCatalogue, p3 \in StorageProofCatalogue :
               LET j == [input EXCEPT !.deposit_amount = d,
                                      !.deposit_account_proof = p1,
                                      !.nullifier_account_proof = p2,
                                      !.previous_nullifier_storage_proof = p3]
                   r == Execute(j)
               IN  /\ r.kind = "Ok" => r.output = result.output
                   /\ ProgramOutput(j, CumulativeWithdrawnAmountHashed(j))
                          = result.output
        /\ \A s \in Secrets, k \in 0..MaxIndex, d \in U256,
              p1 \in DepositProofCatalogue, p3 \in StorageProofCatalogue :
               LET j == [input EXCEPT !.secret = s,
                                      !.withdrawal_index = k,
                                      !.deposit_amount = d,
                                      !.deposit_account_proof = p1,
                                      !.previous_nullifier_storage_proof = p3]
                   r == Execute(j)
               IN  r.kind = "Ok" =>
                       /\ WithoutNullifier(r.output)
                              = WithoutNullifier(result.output)
                       /\ r.output.current_nullifier = nullifier(s, k)

\* The executor accepted an input, and accepts the input of another
\* depositor for the same state root and nullifier address.
C24_Witness ==
    /\ Succeeded
    /\ \E p1 \in DepositProofCatalogue :
           LET j == [input EXCEPT !.secret = OtherSecret,
                                  !.deposit_amount = 2,
                                  !.deposit_account_proof = p1]
           IN  /\ input.secret = TEST_SECRET
               /\ ExecutesOk(j)
               /\ Execute(j).output.current_nullifier
                      # result.output.current_nullifier


(***************************************************************************)
(* The strings that WormholeSecret feeds to SHA-256 (secret.rs 72-89), for *)
(* secrets of any length: WormholeSecret wraps Bytes, and new_unchecked    *)
(* takes them as they come.                                                *)
(***************************************************************************)
\* The bytes of the secrets: zero, and the three salts.
SecretByteValues == {0, MAGIC_NULLIFIER, MAGIC_POW, MAGIC_ADDRESS}

\* The secrets of up to MaxSecretLen bytes.
ShortSecrets ==
    UNION {[1..n -> SecretByteValues] : n \in 0..MaxSecretLen}

PreimageInit ==
    /\ ExecIdle
    /\ pair \in (ShortSecrets \cup Secrets) \X U256
    /\ preimages = <<>>
    /\ pow_hash = <<>>
    /\ pow_valid = <<>>
    /\ secret_bytes = <<>>
    /\ draws = 0
    /\ mined = "none"

\* secret.rs 72-89: the three strings hashed for the secret and the index.
DerivePreimages ==
    /\ preimages = <<>>
    /\ preimages' =
           <<[nullifier |-> NullifierPreimage(pair[1], pair[2]),
              proof_of_work |-> ProofOfWorkPreimage(pair[1]),
              burn_address |-> BurnAddressPreimage(pair[1])]>>
    /\ UNCHANGED <<exec_vars, pow_hash, pow_valid, secret_bytes, draws,
                   mined, pair>>

PreimageNext == DerivePreimages

PreimageSpec == PreimageInit /\ [][PreimageNext]_vars

\* C25: the string hashed for a nullifier is that of no other pair of a
\* secret and an index, in particular not that of the previous index, and
\* it is neither the proof-of-work string nor the burn-address string of any
\* secret; the three salts are pairwise distinct.
C25_PreimageSeparation ==
    /\ preimages # <<>> =>
           /\ \A s \in ShortSecrets \cup Secrets, k \in U256 :
                  NullifierPreimage(s, k) = preimages[1].nullifier
                      => <<s, k>> = pair
           /\ pair[2] > 0 =>
                  NullifierPreimage(pair[1], pair[2] - 1)
                      # preimages[1].nullifier
           /\ \A s \in ShortSecrets \cup Secrets :
                  /\ ProofOfWorkPreimage(s) # preimages[1].nullifier
                  /\ BurnAddressPreimage(s) # preimages[1].nullifier
           /\ \A s \in ShortSecrets \cup Secrets, k \in U256 :
                  /\ NullifierPreimage(s, k) # preimages[1].proof_of_work
                  /\ NullifierPreimage(s, k) # preimages[1].burn_address
    /\ MAGIC_NULLIFIER # MAGIC_POW
    /\ MAGIC_NULLIFIER # MAGIC_ADDRESS
    /\ MAGIC_POW # MAGIC_ADDRESS

\* The preimages of a secret that ends in the byte of an index, for an
\* index above zero.
C25_Witness ==
    /\ preimages # <<>>
    /\ pair[2] > 0
    /\ Len(pair[1]) = MaxSecretLen
    /\ pair[1][MaxSecretLen] = MAGIC_NULLIFIER
    /\ preimages[1].nullifier = <<MAGIC_NULLIFIER>> \o pair[1] \o <<pair[2], 0>>

\* The preimages of the empty secret: the salt and the index only.
C25_EmptySecretReached ==
    /\ preimages # <<>>
    /\ pair[1] = <<>>
    /\ preimages[1].proof_of_work = <<MAGIC_POW>>

====
